---------------------------- MODULE Spec2Model ----------------------------
(***************************************************************************)
(* Model of src/src/types.rs of the yubihsm crate: the conversions between *)
(* the crate's typed values (Domain, Command, Algorithm, Capability,       *)
(* ReturnCode, ...) and the numeric / string forms libyubihsm uses.        *)
(*                                                                         *)
(* The crate keeps no state of its own: every operation is a conversion.   *)
(* The state of the model is therefore the caller's view of one            *)
(* conversion: which one ran (op), on what (arg), and what came back       *)
(* (ret).  Two-step actions (encode, then decode what was encoded) keep    *)
(* the original argument in arg and replace ret.                           *)
(***************************************************************************)
EXTENDS Integers, Naturals, Sequences, FiniteSets, TLC

VARIABLES op, arg, ret

vars == <<op, arg, ret>>

(***************************************************************************)
(* Outcomes of a Rust call: it returns a value or it panics.               *)
(***************************************************************************)
Return(v) == [tag |-> "Return", val |-> v]

Panic(msg) == [tag |-> "Panic", msg |-> msg]

Ok(v) == [tag |-> "Ok", val |-> v]

Err(msg) == [tag |-> "Err", msg |-> msg]

(***************************************************************************)
(* Machine integers.                                                       *)
(***************************************************************************)
U8_BITS == 8

U16_BITS == 16

U8 == 0 .. (2 ^ U8_BITS - 1)

U16 == 0 .. (2 ^ U16_BITS - 1)

\* Whether the build checks integer overflow (debug) or wraps (release).
OverflowChecks == BOOLEAN

\* a & b # 0 where b has exactly one bit set (b = 1 << k): bit k of a is set
BitTest(a, b) == (a \div b) % 2 = 1

\* a | b where b has exactly one bit set (b = 1 << k): a with bit k set
BitOr(a, b) == IF BitTest(a, b) THEN a ELSE a + b

\* a - b on u8: underflow panics when overflow checks are on, wraps otherwise
SubU8(a, b, checks) ==
    IF a - b >= 0 THEN Return(a - b)
    ELSE IF checks THEN Panic("attempt to subtract with overflow")
    ELSE Return(a - b + 2 ^ U8_BITS)

\* a << s on u16: a shift of 16 or more panics when overflow checks are on,
\* and is taken modulo 16 otherwise; bits shifted out are lost
ShlU16(a, s, checks) ==
    IF s < U16_BITS THEN Return((a * 2 ^ s) % (2 ^ U16_BITS))
    ELSE IF checks THEN Panic("attempt to shift left with overflow")
    ELSE Return((a * 2 ^ (s % U16_BITS)) % (2 ^ U16_BITS))

(***************************************************************************)
(* Domain and DomainParam.  A Domain is the u8 it wraps, a DomainParam the *)
(* u16 it wraps, a Vec<Domain> a sequence.                                 *)
(***************************************************************************)
MIN_DOMAIN == 1

MAX_DOMAIN == 16

\* mutant: the lower bound of the range check is dropped
Domain_new_NoLowerBound(domain) ==
    IF domain > MAX_DOMAIN THEN Err("invalid domain") ELSE Ok(domain)

\* mutant: the upper bound of the range check is off by one
Domain_new_UpperOffByOne(domain) ==
    IF domain < MIN_DOMAIN \/ domain > MAX_DOMAIN + 1
    THEN Err("invalid domain")
    ELSE Ok(domain)

\* Domain::new
Domain_new(domain) ==
    IF domain < MIN_DOMAIN \/ domain > MAX_DOMAIN
    THEN Err("invalid domain")
    ELSE Ok(domain)

\* the bit of one domain: 1u16 << (dom.0 - 1)
DomainBit(dom, checks) ==
    LET s == SubU8(dom, 1, checks)
    IN  IF s.tag = "Panic" THEN s ELSE ShlU16(1, s.val, checks)

\* impl From<Domain> for DomainParam
DomainParam_from_Domain(dom, checks) == DomainBit(dom, checks)

RECURSIVE DomainParam_fold(_, _, _, _)
\* the loop of impl From<T> for DomainParam, from element i on
DomainParam_fold(doms, i, out, checks) ==
    IF i > Len(doms) THEN Return(out)
    ELSE LET b == DomainBit(doms[i], checks)
         IN  IF b.tag = "Panic" THEN b
             ELSE DomainParam_fold(doms, i + 1, BitOr(out, b.val), checks)

\* mutant: the bits are assigned, not or-ed, so only the last domain counts
DomainParam_from_iter_Assign(doms, checks) ==
    IF Len(doms) = 0 THEN Return(0) ELSE DomainBit(doms[Len(doms)], checks)

\* mutant: the shift is by the domain, not by the domain minus one
DomainParam_from_iter_NoMinusOne(doms, checks) ==
    DomainParam_fold([i \in 1 .. Len(doms) |-> doms[i] + 1], 1, 0, checks)

\* impl From<T: IntoIterator<Item = &Domain>> for DomainParam
DomainParam_from_iter(doms, checks) == DomainParam_fold(doms, 1, 0, checks)

\* the end of the range 0..16 the decoder iterates over
DECODE_END == 16

RECURSIVE Vec_from_loop(_, _, _)
\* the loop of impl From<DomainParam> for Vec<Domain>, from bit `domain` on
Vec_from_loop(dom_param, domain, out) ==
    IF domain >= DECODE_END THEN out
    ELSE Vec_from_loop(
            dom_param, domain + 1,
            IF BitTest(dom_param, ShlU16(1, domain, TRUE).val)
            THEN Append(out, domain + 1)
            ELSE out)

\* mutant: the loop stops one bit early and bit 15 is never decoded
Vec_from_DomainParam_SkipTopBit(dom_param) ==
    Vec_from_loop(dom_param % 2 ^ (DECODE_END - 1), 0, <<>>)

\* impl From<DomainParam> for Vec<Domain>
Vec_from_DomainParam(dom_param) == Vec_from_loop(dom_param, 0, <<>>)

(***************************************************************************)
(* The Domain values a caller can make by hand.  Domain's field is         *)
(* crate-private, so outside this file a Domain comes from Domain::new or  *)
(* from decoding a DomainParam, and from nowhere else.                     *)
(***************************************************************************)
DomainsFromNew == {Domain_new(d).val : d \in {x \in U8 : Domain_new(x).tag = "Ok"}}

\* longest Vec<Domain>, in any order and with repetitions, that a caller
\* assembles by hand
MaxListLen == 3

BoundedSeq(S, n) == UNION {[1 .. k -> S] : k \in 0 .. n}

Range(s) == {s[i] : i \in 1 .. Len(s)}

\* the members of S in ascending order
Ascending(S) == SelectSeq([i \in 1 .. 2 ^ U8_BITS - 1 |-> i], LAMBDA d : d \in S)

(***************************************************************************)
(* Actions of the Domain codec.  The caller makes one conversion at a      *)
(* time: it starts one when it holds no result (op = "start"), may feed    *)
(* the result to the next conversion, and then drops it.                   *)
(***************************************************************************)
\* a caller validates a raw u8
DomainNew ==
    /\ op = "start"
    /\ \E d \in U8 :
        /\ op' = "Domain::new"
        /\ arg' = d
        /\ ret' = Return(Domain_new(d))

\* the Domain that Domain::new just returned is encoded
EncodeNewDomain ==
    /\ op = "Domain::new"
    /\ ret.val.tag = "Ok"
    /\ \E checks \in OverflowChecks :
        /\ op' = "DomainParam::from(Domain)"
        /\ arg' = ret.val.val
        /\ ret' = DomainParam_from_Domain(ret.val.val, checks)

\* one Domain of the list that a decode just returned is encoded
EncodeDecodedDomain ==
    /\ op = "Vec::from(DomainParam)"
    /\ \E i \in 1 .. Len(ret.val), checks \in OverflowChecks :
        /\ op' = "DomainParam::from(Domain)"
        /\ arg' = ret.val[i]
        /\ ret' = DomainParam_from_Domain(ret.val[i], checks)

\* a caller encodes a list it assembled by hand, in any order
EncodeList ==
    /\ op = "start"
    /\ \E doms \in BoundedSeq(DomainsFromNew, MaxListLen), checks \in OverflowChecks :
        /\ op' = "DomainParam::from(iter)"
        /\ arg' = doms
        /\ ret' = DomainParam_from_iter(doms, checks)

\* a caller encodes a set of domains, given in ascending order
EncodeSet ==
    /\ op = "start"
    /\ \E S \in SUBSET DomainsFromNew, checks \in OverflowChecks :
        /\ op' = "DomainParam::from(iter)"
        /\ arg' = Ascending(S)
        /\ ret' = DomainParam_from_iter(Ascending(S), checks)

\* what was just encoded is decoded again; arg stays the list encoded
DecodeEncoded ==
    /\ op = "DomainParam::from(iter)"
    /\ ret.tag = "Return"
    /\ op' = "Vec::from(DomainParam::from(iter))"
    /\ arg' = arg
    /\ ret' = Return(Vec_from_DomainParam(ret.val))

\* a DomainParam (from the device, or any other u16) is decoded
DecodeParam ==
    /\ op = "start"
    /\ \E m \in U16 :
        /\ op' = "Vec::from(DomainParam)"
        /\ arg' = m
        /\ ret' = Return(Vec_from_DomainParam(m))

\* what was just decoded is encoded again; arg stays the mask decoded
EncodeDecoded ==
    /\ op = "Vec::from(DomainParam)"
    /\ \E checks \in OverflowChecks :
        /\ op' = "DomainParam::from(Vec::from(DomainParam))"
        /\ arg' = arg
        /\ ret' = DomainParam_from_iter(ret.val, checks)

Init ==
    /\ op = "start"
    /\ arg = <<>>
    /\ ret = Return(<<>>)

\* the caller is done with the result of the last conversion
Drop ==
    /\ op # "start"
    /\ op' = "start"
    /\ arg' = <<>>
    /\ ret' = Return(<<>>)

NextDomain ==
    \/ DomainNew
    \/ EncodeNewDomain
    \/ EncodeDecodedDomain
    \/ EncodeList
    \/ EncodeSet
    \/ DecodeEncoded
    \/ DecodeParam
    \/ EncodeDecoded
    \/ Drop

SpecDomain == Init /\ [][NextDomain]_vars

(***************************************************************************)
(* Command and CommandType.  A CommandType is the name of its variant; a   *)
(* Command is a record tagged Request, Response or Unknown.                *)
(***************************************************************************)
CommandTypes == {
    "Echo", "CreateSession", "AuthSession", "SessionMessage",
    "GetDeviceInfo", "Bsl", "Reset", "CloseSession", "StorageStatistics",
    "PutOpaque", "GetOpaque", "PutAuthKey", "PutAsymmetricKey",
    "GenerateAsymmetricKey", "SignPkcs1", "ListObjects", "DecryptPkcs1",
    "ExportWrapped", "ImportWrapped", "PutWrapKey", "GetLogs",
    "GetObjectInfo", "PutOption", "GetOption", "GetPsuedoRandom",
    "PutHmacKey", "HmacData", "GetPubkey", "SignPss", "SignEcdsa",
    "DecryptEcdh", "DeleteObject", "DecryptOaep", "GenerateHmacKey",
    "GenerateWrapKey", "VerifyHmac", "SshCertify", "PutTemplate",
    "GetTemplate", "OtpDecrypt", "OtpAeadCreate", "OtpAeadRandom",
    "OtpAeadRewrap", "AttestAsymmetric", "PutOtpAeadKey",
    "GenerateOtpAeadKey", "SetLogIndex", "WrapData", "UnwrapData",
    "SignEddsa", "Blink", "Error"}

Request(ty) == [tag |-> "Request", ty |-> ty]

Response(ty) == [tag |-> "Response", ty |-> ty]

Unknown == [tag |-> "Unknown"]

Commands ==
    {Request(ty) : ty \in CommandTypes} \cup {Response(ty) : ty \in CommandTypes}
    \cup {Unknown}

\* The yh_cmd_* constants that `use yubihsm_sys::*` brings in.  yubihsm_sys
\* is the binding of libyubihsm generated from its header yubihsm.h; the
\* values are those of the header's enum yh_cmd, where every YHC_x_R is
\* YHC_x | 0x80 and YHC_ERROR (0x7f) has no _R form.
yh_cmd == [
    YHC_ECHO |-> 1, YHC_ECHO_R |-> 129, YHC_CREATE_SES |-> 3,
    YHC_CREATE_SES_R |-> 131, YHC_AUTH_SES |-> 4, YHC_AUTH_SES_R |-> 132,
    YHC_SES_MSG |-> 5, YHC_SES_MSG_R |-> 133, YHC_GET_DEVICE_INFO |-> 6,
    YHC_GET_DEVICE_INFO_R |-> 134, YHC_BSL |-> 7, YHC_BSL_R |-> 135,
    YHC_RESET |-> 8, YHC_RESET_R |-> 136, YHC_CLOSE_SES |-> 64,
    YHC_CLOSE_SES_R |-> 192, YHC_STATS |-> 65, YHC_STATS_R |-> 193,
    YHC_PUT_OPAQUE |-> 66, YHC_PUT_OPAQUE_R |-> 194, YHC_GET_OPAQUE |-> 67,
    YHC_GET_OPAQUE_R |-> 195, YHC_PUT_AUTHKEY |-> 68,
    YHC_PUT_AUTHKEY_R |-> 196, YHC_PUT_ASYMMETRIC_KEY |-> 69,
    YHC_PUT_ASYMMETRIC_KEY_R |-> 197, YHC_GEN_ASYMMETRIC_KEY |-> 70,
    YHC_GEN_ASYMMETRIC_KEY_R |-> 198, YHC_SIGN_DATA_PKCS1 |-> 71,
    YHC_SIGN_DATA_PKCS1_R |-> 199, YHC_LIST |-> 72, YHC_LIST_R |-> 200,
    YHC_DECRYPT_PKCS1 |-> 73, YHC_DECRYPT_PKCS1_R |-> 201,
    YHC_EXPORT_WRAPPED |-> 74, YHC_EXPORT_WRAPPED_R |-> 202,
    YHC_IMPORT_WRAPPED |-> 75, YHC_IMPORT_WRAPPED_R |-> 203,
    YHC_PUT_WRAP_KEY |-> 76, YHC_PUT_WRAP_KEY_R |-> 204,
    YHC_GET_LOGS |-> 77, YHC_GET_LOGS_R |-> 205,
    YHC_GET_OBJECT_INFO |-> 78, YHC_GET_OBJECT_INFO_R |-> 206,
    YHC_PUT_OPTION |-> 79, YHC_PUT_OPTION_R |-> 207, YHC_GET_OPTION |-> 80,
    YHC_GET_OPTION_R |-> 208, YHC_GET_PSEUDO_RANDOM |-> 81,
    YHC_GET_PSEUDO_RANDOM_R |-> 209, YHC_PUT_HMAC_KEY |-> 82,
    YHC_PUT_HMAC_KEY_R |-> 210, YHC_HMAC_DATA |-> 83,
    YHC_HMAC_DATA_R |-> 211, YHC_GET_PUBKEY |-> 84,
    YHC_GET_PUBKEY_R |-> 212, YHC_SIGN_DATA_PSS |-> 85,
    YHC_SIGN_DATA_PSS_R |-> 213, YHC_SIGN_DATA_ECDSA |-> 86,
    YHC_SIGN_DATA_ECDSA_R |-> 214, YHC_DECRYPT_ECDH |-> 87,
    YHC_DECRYPT_ECDH_R |-> 215, YHC_DELETE_OBJECT |-> 88,
    YHC_DELETE_OBJECT_R |-> 216, YHC_DECRYPT_OAEP |-> 89,
    YHC_DECRYPT_OAEP_R |-> 217, YHC_GENERATE_HMAC_KEY |-> 90,
    YHC_GENERATE_HMAC_KEY_R |-> 218, YHC_GENERATE_WRAP_KEY |-> 91,
    YHC_GENERATE_WRAP_KEY_R |-> 219, YHC_VERIFY_HMAC |-> 92,
    YHC_VERIFY_HMAC_R |-> 220, YHC_SSH_CERTIFY |-> 93,
    YHC_SSH_CERTIFY_R |-> 221, YHC_PUT_TEMPLATE |-> 94,
    YHC_PUT_TEMPLATE_R |-> 222, YHC_GET_TEMPLATE |-> 95,
    YHC_GET_TEMPLATE_R |-> 223, YHC_OTP_DECRYPT |-> 96,
    YHC_OTP_DECRYPT_R |-> 224, YHC_OTP_AEAD_CREATE |-> 97,
    YHC_OTP_AEAD_CREATE_R |-> 225, YHC_OTP_AEAD_RANDOM |-> 98,
    YHC_OTP_AEAD_RANDOM_R |-> 226, YHC_OTP_AEAD_REWRAP |-> 99,
    YHC_OTP_AEAD_REWRAP_R |-> 227, YHC_ATTEST_ASYMMETRIC |-> 100,
    YHC_ATTEST_ASYMMETRIC_R |-> 228, YHC_PUT_OTP_AEAD_KEY |-> 101,
    YHC_PUT_OTP_AEAD_KEY_R |-> 229, YHC_GENERATE_OTP_AEAD_KEY |-> 102,
    YHC_GENERATE_OTP_AEAD_KEY_R |-> 230, YHC_SET_LOG_INDEX |-> 103,
    YHC_SET_LOG_INDEX_R |-> 231, YHC_WRAP_DATA |-> 104,
    YHC_WRAP_DATA_R |-> 232, YHC_UNWRAP_DATA |-> 105,
    YHC_UNWRAP_DATA_R |-> 233, YHC_SIGN_DATA_EDDSA |-> 106,
    YHC_SIGN_DATA_EDDSA_R |-> 234, YHC_BLINK |-> 107, YHC_BLINK_R |-> 235,
    YHC_ERROR |-> 127]

\* the match of impl From<CommandType> for u8
CommandType_match(cmd_type) ==
    CASE cmd_type = "Echo" -> yh_cmd.YHC_ECHO
      [] cmd_type = "CreateSession" -> yh_cmd.YHC_CREATE_SES
      [] cmd_type = "AuthSession" -> yh_cmd.YHC_AUTH_SES
      [] cmd_type = "SessionMessage" -> yh_cmd.YHC_SES_MSG
      [] cmd_type = "GetDeviceInfo" -> yh_cmd.YHC_GET_DEVICE_INFO
      [] cmd_type = "Bsl" -> yh_cmd.YHC_BSL
      [] cmd_type = "Reset" -> yh_cmd.YHC_RESET
      [] cmd_type = "CloseSession" -> yh_cmd.YHC_CLOSE_SES
      [] cmd_type = "StorageStatistics" -> yh_cmd.YHC_STATS
      [] cmd_type = "PutOpaque" -> yh_cmd.YHC_PUT_OPAQUE
      [] cmd_type = "GetOpaque" -> yh_cmd.YHC_GET_OPAQUE
      [] cmd_type = "PutAuthKey" -> yh_cmd.YHC_PUT_AUTHKEY
      [] cmd_type = "PutAsymmetricKey" -> yh_cmd.YHC_PUT_ASYMMETRIC_KEY
      [] cmd_type = "GenerateAsymmetricKey" -> yh_cmd.YHC_GEN_ASYMMETRIC_KEY
      [] cmd_type = "SignPkcs1" -> yh_cmd.YHC_SIGN_DATA_PKCS1
      [] cmd_type = "ListObjects" -> yh_cmd.YHC_LIST
      [] cmd_type = "DecryptPkcs1" -> yh_cmd.YHC_DECRYPT_PKCS1
      [] cmd_type = "ExportWrapped" -> yh_cmd.YHC_EXPORT_WRAPPED
      [] cmd_type = "ImportWrapped" -> yh_cmd.YHC_IMPORT_WRAPPED
      [] cmd_type = "PutWrapKey" -> yh_cmd.YHC_PUT_WRAP_KEY
      [] cmd_type = "GetLogs" -> yh_cmd.YHC_GET_LOGS
      [] cmd_type = "GetObjectInfo" -> yh_cmd.YHC_GET_OBJECT_INFO
      [] cmd_type = "PutOption" -> yh_cmd.YHC_PUT_OPTION
      [] cmd_type = "GetOption" -> yh_cmd.YHC_GET_OPTION
      [] cmd_type = "GetPsuedoRandom" -> yh_cmd.YHC_GET_PSEUDO_RANDOM
      [] cmd_type = "PutHmacKey" -> yh_cmd.YHC_PUT_HMAC_KEY
      [] cmd_type = "HmacData" -> yh_cmd.YHC_HMAC_DATA
      [] cmd_type = "GetPubkey" -> yh_cmd.YHC_GET_PUBKEY
      [] cmd_type = "SignPss" -> yh_cmd.YHC_SIGN_DATA_PSS
      [] cmd_type = "SignEcdsa" -> yh_cmd.YHC_SIGN_DATA_ECDSA
      [] cmd_type = "DecryptEcdh" -> yh_cmd.YHC_DECRYPT_ECDH
      [] cmd_type = "DeleteObject" -> yh_cmd.YHC_DELETE_OBJECT
      [] cmd_type = "DecryptOaep" -> yh_cmd.YHC_DECRYPT_OAEP
      [] cmd_type = "GenerateHmacKey" -> yh_cmd.YHC_GENERATE_HMAC_KEY
      [] cmd_type = "GenerateWrapKey" -> yh_cmd.YHC_GENERATE_WRAP_KEY
      [] cmd_type = "VerifyHmac" -> yh_cmd.YHC_VERIFY_HMAC
      [] cmd_type = "SshCertify" -> yh_cmd.YHC_SSH_CERTIFY
      [] cmd_type = "PutTemplate" -> yh_cmd.YHC_PUT_TEMPLATE
      [] cmd_type = "GetTemplate" -> yh_cmd.YHC_GET_TEMPLATE
      [] cmd_type = "OtpDecrypt" -> yh_cmd.YHC_OTP_DECRYPT
      [] cmd_type = "OtpAeadCreate" -> yh_cmd.YHC_OTP_AEAD_CREATE
      [] cmd_type = "OtpAeadRandom" -> yh_cmd.YHC_OTP_AEAD_RANDOM
      [] cmd_type = "OtpAeadRewrap" -> yh_cmd.YHC_OTP_AEAD_REWRAP
      [] cmd_type = "AttestAsymmetric" -> yh_cmd.YHC_ATTEST_ASYMMETRIC
      [] cmd_type = "PutOtpAeadKey" -> yh_cmd.YHC_PUT_OTP_AEAD_KEY
      [] cmd_type = "GenerateOtpAeadKey" -> yh_cmd.YHC_GENERATE_OTP_AEAD_KEY
      [] cmd_type = "SetLogIndex" -> yh_cmd.YHC_SET_LOG_INDEX
      [] cmd_type = "WrapData" -> yh_cmd.YHC_WRAP_DATA
      [] cmd_type = "UnwrapData" -> yh_cmd.YHC_UNWRAP_DATA
      [] cmd_type = "SignEddsa" -> yh_cmd.YHC_SIGN_DATA_EDDSA
      [] cmd_type = "Blink" -> yh_cmd.YHC_BLINK
      [] cmd_type = "Error" -> yh_cmd.YHC_ERROR

\* mutant: Blink is bound to the opcode of Echo
CommandType_to_u8_BlinkAsEcho(cmd_type) ==
    IF cmd_type = "Blink" THEN yh_cmd.YHC_ECHO
    ELSE CommandType_match(cmd_type) % 2 ^ U8_BITS

\* impl From<CommandType> for u8: the matched constant, `as u8`
CommandType_to_u8(cmd_type) == CommandType_match(cmd_type) % 2 ^ U8_BITS

\* the match of impl From<T> for Command
Command_match(cmd) ==
    CASE cmd = yh_cmd.YHC_ECHO -> Request("Echo")
      [] cmd = yh_cmd.YHC_CREATE_SES -> Request("CreateSession")
      [] cmd = yh_cmd.YHC_AUTH_SES -> Request("AuthSession")
      [] cmd = yh_cmd.YHC_SES_MSG -> Request("SessionMessage")
      [] cmd = yh_cmd.YHC_GET_DEVICE_INFO -> Request("GetDeviceInfo")
      [] cmd = yh_cmd.YHC_BSL -> Request("Bsl")
      [] cmd = yh_cmd.YHC_RESET -> Request("Reset")
      [] cmd = yh_cmd.YHC_CLOSE_SES -> Request("CloseSession")
      [] cmd = yh_cmd.YHC_STATS -> Request("StorageStatistics")
      [] cmd = yh_cmd.YHC_PUT_OPAQUE -> Request("PutOpaque")
      [] cmd = yh_cmd.YHC_GET_OPAQUE -> Request("GetOpaque")
      [] cmd = yh_cmd.YHC_PUT_AUTHKEY -> Request("PutAuthKey")
      [] cmd = yh_cmd.YHC_PUT_ASYMMETRIC_KEY -> Request("PutAsymmetricKey")
      [] cmd = yh_cmd.YHC_GEN_ASYMMETRIC_KEY -> Request("GenerateAsymmetricKey")
      [] cmd = yh_cmd.YHC_SIGN_DATA_PKCS1 -> Request("SignPkcs1")
      [] cmd = yh_cmd.YHC_LIST -> Request("ListObjects")
      [] cmd = yh_cmd.YHC_DECRYPT_PKCS1 -> Request("DecryptPkcs1")
      [] cmd = yh_cmd.YHC_EXPORT_WRAPPED -> Request("ExportWrapped")
      [] cmd = yh_cmd.YHC_IMPORT_WRAPPED -> Request("ImportWrapped")
      [] cmd = yh_cmd.YHC_PUT_WRAP_KEY -> Request("PutWrapKey")
      [] cmd = yh_cmd.YHC_GET_LOGS -> Request("GetLogs")
      [] cmd = yh_cmd.YHC_GET_OBJECT_INFO -> Request("GetObjectInfo")
      [] cmd = yh_cmd.YHC_PUT_OPTION -> Request("PutOption")
      [] cmd = yh_cmd.YHC_GET_OPTION -> Request("GetOption")
      [] cmd = yh_cmd.YHC_GET_PSEUDO_RANDOM -> Request("GetPsuedoRandom")
      [] cmd = yh_cmd.YHC_PUT_HMAC_KEY -> Request("PutHmacKey")
      [] cmd = yh_cmd.YHC_HMAC_DATA -> Request("HmacData")
      [] cmd = yh_cmd.YHC_GET_PUBKEY -> Request("GetPubkey")
      [] cmd = yh_cmd.YHC_SIGN_DATA_PSS -> Request("SignPss")
      [] cmd = yh_cmd.YHC_SIGN_DATA_ECDSA -> Request("SignEcdsa")
      [] cmd = yh_cmd.YHC_DECRYPT_ECDH -> Request("DecryptEcdh")
      [] cmd = yh_cmd.YHC_DELETE_OBJECT -> Request("DeleteObject")
      [] cmd = yh_cmd.YHC_DECRYPT_OAEP -> Request("DecryptOaep")
      [] cmd = yh_cmd.YHC_GENERATE_HMAC_KEY -> Request("GenerateHmacKey")
      [] cmd = yh_cmd.YHC_GENERATE_WRAP_KEY -> Request("GenerateWrapKey")
      [] cmd = yh_cmd.YHC_VERIFY_HMAC -> Request("VerifyHmac")
      [] cmd = yh_cmd.YHC_SSH_CERTIFY -> Request("SshCertify")
      [] cmd = yh_cmd.YHC_PUT_TEMPLATE -> Request("PutTemplate")
      [] cmd = yh_cmd.YHC_GET_TEMPLATE -> Request("GetTemplate")
      [] cmd = yh_cmd.YHC_OTP_DECRYPT -> Request("OtpDecrypt")
      [] cmd = yh_cmd.YHC_OTP_AEAD_CREATE -> Request("OtpAeadCreate")
      [] cmd = yh_cmd.YHC_OTP_AEAD_RANDOM -> Request("OtpAeadRandom")
      [] cmd = yh_cmd.YHC_OTP_AEAD_REWRAP -> Request("OtpAeadRewrap")
      [] cmd = yh_cmd.YHC_ATTEST_ASYMMETRIC -> Request("AttestAsymmetric")
      [] cmd = yh_cmd.YHC_PUT_OTP_AEAD_KEY -> Request("PutOtpAeadKey")
      [] cmd = yh_cmd.YHC_GENERATE_OTP_AEAD_KEY -> Request("GenerateOtpAeadKey")
      [] cmd = yh_cmd.YHC_SET_LOG_INDEX -> Request("SetLogIndex")
      [] cmd = yh_cmd.YHC_WRAP_DATA -> Request("WrapData")
      [] cmd = yh_cmd.YHC_UNWRAP_DATA -> Request("UnwrapData")
      [] cmd = yh_cmd.YHC_SIGN_DATA_EDDSA -> Request("SignEddsa")
      [] cmd = yh_cmd.YHC_BLINK -> Request("Blink")
      [] cmd = yh_cmd.YHC_ECHO_R -> Response("Echo")
      [] cmd = yh_cmd.YHC_CREATE_SES_R -> Response("CreateSession")
      [] cmd = yh_cmd.YHC_AUTH_SES_R -> Response("AuthSession")
      [] cmd = yh_cmd.YHC_SES_MSG_R -> Response("SessionMessage")
      [] cmd = yh_cmd.YHC_GET_DEVICE_INFO_R -> Response("GetDeviceInfo")
      [] cmd = yh_cmd.YHC_BSL_R -> Response("Bsl")
      [] cmd = yh_cmd.YHC_RESET_R -> Response("Reset")
      [] cmd = yh_cmd.YHC_CLOSE_SES_R -> Response("CloseSession")
      [] cmd = yh_cmd.YHC_STATS_R -> Response("StorageStatistics")
      [] cmd = yh_cmd.YHC_PUT_OPAQUE_R -> Response("PutOpaque")
      [] cmd = yh_cmd.YHC_GET_OPAQUE_R -> Response("GetOpaque")
      [] cmd = yh_cmd.YHC_PUT_AUTHKEY_R -> Response("PutAuthKey")
      [] cmd = yh_cmd.YHC_PUT_ASYMMETRIC_KEY_R -> Response("PutAsymmetricKey")
      [] cmd = yh_cmd.YHC_GEN_ASYMMETRIC_KEY_R -> Response("GenerateAsymmetricKey")
      [] cmd = yh_cmd.YHC_SIGN_DATA_PKCS1_R -> Response("SignPkcs1")
      [] cmd = yh_cmd.YHC_LIST_R -> Response("ListObjects")
      [] cmd = yh_cmd.YHC_DECRYPT_PKCS1_R -> Response("DecryptPkcs1")
      [] cmd = yh_cmd.YHC_EXPORT_WRAPPED_R -> Response("ExportWrapped")
      [] cmd = yh_cmd.YHC_IMPORT_WRAPPED_R -> Response("ImportWrapped")
      [] cmd = yh_cmd.YHC_PUT_WRAP_KEY_R -> Response("PutWrapKey")
      [] cmd = yh_cmd.YHC_GET_LOGS_R -> Response("GetLogs")
      [] cmd = yh_cmd.YHC_GET_OBJECT_INFO_R -> Response("GetObjectInfo")
      [] cmd = yh_cmd.YHC_PUT_OPTION_R -> Response("PutOption")
      [] cmd = yh_cmd.YHC_GET_OPTION_R -> Response("GetOption")
      [] cmd = yh_cmd.YHC_GET_PSEUDO_RANDOM_R -> Response("GetPsuedoRandom")
      [] cmd = yh_cmd.YHC_PUT_HMAC_KEY_R -> Response("PutHmacKey")
      [] cmd = yh_cmd.YHC_HMAC_DATA_R -> Response("HmacData")
      [] cmd = yh_cmd.YHC_GET_PUBKEY_R -> Response("GetPubkey")
      [] cmd = yh_cmd.YHC_SIGN_DATA_PSS_R -> Response("SignPss")
      [] cmd = yh_cmd.YHC_SIGN_DATA_ECDSA_R -> Response("SignEcdsa")
      [] cmd = yh_cmd.YHC_DECRYPT_ECDH_R -> Response("DecryptEcdh")
      [] cmd = yh_cmd.YHC_DELETE_OBJECT_R -> Response("DeleteObject")
      [] cmd = yh_cmd.YHC_DECRYPT_OAEP_R -> Response("DecryptOaep")
      [] cmd = yh_cmd.YHC_GENERATE_HMAC_KEY_R -> Response("GenerateHmacKey")
      [] cmd = yh_cmd.YHC_GENERATE_WRAP_KEY_R -> Response("GenerateWrapKey")
      [] cmd = yh_cmd.YHC_VERIFY_HMAC_R -> Response("VerifyHmac")
      [] cmd = yh_cmd.YHC_SSH_CERTIFY_R -> Response("SshCertify")
      [] cmd = yh_cmd.YHC_PUT_TEMPLATE_R -> Response("PutTemplate")
      [] cmd = yh_cmd.YHC_GET_TEMPLATE_R -> Response("GetTemplate")
      [] cmd = yh_cmd.YHC_OTP_DECRYPT_R -> Response("OtpDecrypt")
      [] cmd = yh_cmd.YHC_OTP_AEAD_CREATE_R -> Response("OtpAeadCreate")
      [] cmd = yh_cmd.YHC_OTP_AEAD_RANDOM_R -> Response("OtpAeadRandom")
      [] cmd = yh_cmd.YHC_OTP_AEAD_REWRAP_R -> Response("OtpAeadRewrap")
      [] cmd = yh_cmd.YHC_ATTEST_ASYMMETRIC_R -> Response("AttestAsymmetric")
      [] cmd = yh_cmd.YHC_PUT_OTP_AEAD_KEY_R -> Response("PutOtpAeadKey")
      [] cmd = yh_cmd.YHC_GENERATE_OTP_AEAD_KEY_R -> Response("GenerateOtpAeadKey")
      [] cmd = yh_cmd.YHC_SET_LOG_INDEX_R -> Response("SetLogIndex")
      [] cmd = yh_cmd.YHC_WRAP_DATA_R -> Response("WrapData")
      [] cmd = yh_cmd.YHC_UNWRAP_DATA_R -> Response("UnwrapData")
      [] cmd = yh_cmd.YHC_SIGN_DATA_EDDSA_R -> Response("SignEddsa")
      [] cmd = yh_cmd.YHC_BLINK_R -> Response("Blink")
      [] cmd = yh_cmd.YHC_ERROR -> Response("Error")
      [] OTHER -> Unknown

\* mutant: the Echo response byte decodes to a request
Command_from_EchoResponseAsRequest(cmd) ==
    IF cmd = yh_cmd.YHC_ECHO_R THEN Request("Echo") ELSE Command_match(cmd)

\* mutant: the arm of YHC_BLINK is missing
Command_from_NoBlink(cmd) ==
    IF cmd = yh_cmd.YHC_BLINK THEN Unknown ELSE Command_match(cmd)

\* mutant: the Error opcode is decoded as a request
Command_from_ErrorAsRequest(cmd) ==
    IF cmd = yh_cmd.YHC_ERROR THEN Request("Error") ELSE Command_match(cmd)

\* impl From<T: Into<u32>> for Command: cmd.into() keeps the value
Command_from(cmd) == Command_match(cmd)

\* the bit that `u8::from(ty) | 0x80` sets
RESPONSE_FLAG == 128

\* mutant: a response is encoded without the 0x80 bit
Command_to_u8_NoResponseFlag(cmd) ==
    CASE cmd.tag = "Request" -> CommandType_to_u8(cmd.ty)
      [] cmd.tag = "Response" -> CommandType_to_u8(cmd.ty)
      [] cmd.tag = "Unknown" -> CommandType_to_u8("Error")

\* impl From<Command> for u8
Command_to_u8(cmd) ==
    CASE cmd.tag = "Request" -> CommandType_to_u8(cmd.ty)
      [] cmd.tag = "Response" -> BitOr(CommandType_to_u8(cmd.ty), RESPONSE_FLAG)
      [] cmd.tag = "Unknown" -> CommandType_to_u8("Error")

\* largest value given to Command::from; T: Into<u32> takes more than a byte
MaxCommandInput == 300

(***************************************************************************)
(* Actions of the Command codec.                                           *)
(***************************************************************************)
CommandTypeToU8 ==
    /\ op = "start"
    /\ \E ty \in CommandTypes :
        /\ op' = "u8::from(CommandType)"
        /\ arg' = ty
        /\ ret' = Return(CommandType_to_u8(ty))

CommandToU8 ==
    /\ op = "start"
    /\ \E cmd \in Commands :
        /\ op' = "u8::from(Command)"
        /\ arg' = cmd
        /\ ret' = Return(Command_to_u8(cmd))

CommandFrom ==
    /\ op = "start"
    /\ \E n \in 0 .. MaxCommandInput :
        /\ op' = "Command::from"
        /\ arg' = n
        /\ ret' = Return(Command_from(n))

\* the byte a Command was encoded to is decoded; arg stays the Command
CommandFromEncoded ==
    /\ op = "u8::from(Command)"
    /\ op' = "Command::from(u8::from(Command))"
    /\ arg' = arg
    /\ ret' = Return(Command_from(ret.val))

(***************************************************************************)
(* Algorithm.  An Algorithm is the name of its variant, a yh_algorithm the *)
(* number libyubihsm uses.                                                 *)
(***************************************************************************)
Algorithms == {
    "RsaPkcs1Sha1", "RsaPkcs1Sha256", "RsaPkcs1Sha384", "RsaPkcs1Sha512",
    "RsaPssSha1", "RsaPssSha256", "RsaPssSha384", "RsaPssSha512",
    "Rsa2048", "Rsa3072", "Rsa4096", "EcP256", "EcP384", "EcP521",
    "EcK256", "EcBp256", "EcBp384", "EcBp512", "HmacSha1", "HmacSha256",
    "HmacSha384", "HmacSha512", "EcEcdsaSha1", "EcEcdh", "RsaOaepSha1",
    "RsaOaepSha256", "RsaOaepSha384", "RsaOaepSha512", "Aes128CcmWrap",
    "OpaqueData", "OpaqueX509Cert", "Mgf1Sha1", "Mgf1Sha256", "Mgf1Sha384",
    "Mgf1Sha512", "TemplSsh", "YubicoOtpAes128", "YubicoAesAuth",
    "YubicoOtpAes192", "YubicoOtpAes256", "Aes192CcmWrap", "Aes256CcmWrap",
    "EcEcdsaSha256", "EcEcdsaSha384", "EcEcdsaSha512", "EcEd25519", "EcP224"}

\* The yh_algorithm_YH_ALGO_* constants that `use yubihsm_sys::*` brings in:
\* the values of the enum yh_algorithm of libyubihsm's yubihsm.h.
yh_algorithm == [
    YH_ALGO_RSA_PKCS1_SHA1 |-> 1, YH_ALGO_RSA_PKCS1_SHA256 |-> 2,
    YH_ALGO_RSA_PKCS1_SHA384 |-> 3, YH_ALGO_RSA_PKCS1_SHA512 |-> 4,
    YH_ALGO_RSA_PSS_SHA1 |-> 5, YH_ALGO_RSA_PSS_SHA256 |-> 6,
    YH_ALGO_RSA_PSS_SHA384 |-> 7, YH_ALGO_RSA_PSS_SHA512 |-> 8,
    YH_ALGO_RSA_2048 |-> 9, YH_ALGO_RSA_3072 |-> 10,
    YH_ALGO_RSA_4096 |-> 11, YH_ALGO_EC_P256 |-> 12,
    YH_ALGO_EC_P384 |-> 13, YH_ALGO_EC_P521 |-> 14, YH_ALGO_EC_K256 |-> 15,
    YH_ALGO_EC_BP256 |-> 16, YH_ALGO_EC_BP384 |-> 17,
    YH_ALGO_EC_BP512 |-> 18, YH_ALGO_HMAC_SHA1 |-> 19,
    YH_ALGO_HMAC_SHA256 |-> 20, YH_ALGO_HMAC_SHA384 |-> 21,
    YH_ALGO_HMAC_SHA512 |-> 22, YH_ALGO_EC_ECDSA_SHA1 |-> 23,
    YH_ALGO_EC_ECDH |-> 24, YH_ALGO_RSA_OAEP_SHA1 |-> 25,
    YH_ALGO_RSA_OAEP_SHA256 |-> 26, YH_ALGO_RSA_OAEP_SHA384 |-> 27,
    YH_ALGO_RSA_OAEP_SHA512 |-> 28, YH_ALGO_AES128_CCM_WRAP |-> 29,
    YH_ALGO_OPAQUE_DATA |-> 30, YH_ALGO_OPAQUE_X509_CERT |-> 31,
    YH_ALGO_MGF1_SHA1 |-> 32, YH_ALGO_MGF1_SHA256 |-> 33,
    YH_ALGO_MGF1_SHA384 |-> 34, YH_ALGO_MGF1_SHA512 |-> 35,
    YH_ALGO_TEMPL_SSH |-> 36, YH_ALGO_YUBICO_OTP_AES128 |-> 37,
    YH_ALGO_YUBICO_AES_AUTH |-> 38, YH_ALGO_YUBICO_OTP_AES192 |-> 39,
    YH_ALGO_YUBICO_OTP_AES256 |-> 40, YH_ALGO_AES192_CCM_WRAP |-> 41,
    YH_ALGO_AES256_CCM_WRAP |-> 42, YH_ALGO_EC_ECDSA_SHA256 |-> 43,
    YH_ALGO_EC_ECDSA_SHA384 |-> 44, YH_ALGO_EC_ECDSA_SHA512 |-> 45,
    YH_ALGO_EC_ED25519 |-> 46, YH_ALGO_EC_P224 |-> 47]

\* the match of impl From<yh_algorithm> for Algorithm
Algorithm_match(alg) ==
    CASE alg = yh_algorithm.YH_ALGO_RSA_PKCS1_SHA1 -> Return("RsaPkcs1Sha1")
      [] alg = yh_algorithm.YH_ALGO_RSA_PKCS1_SHA256 -> Return("RsaPkcs1Sha256")
      [] alg = yh_algorithm.YH_ALGO_RSA_PKCS1_SHA384 -> Return("RsaPkcs1Sha384")
      [] alg = yh_algorithm.YH_ALGO_RSA_PKCS1_SHA512 -> Return("RsaPkcs1Sha512")
      [] alg = yh_algorithm.YH_ALGO_RSA_PSS_SHA1 -> Return("RsaPssSha1")
      [] alg = yh_algorithm.YH_ALGO_RSA_PSS_SHA256 -> Return("RsaPssSha256")
      [] alg = yh_algorithm.YH_ALGO_RSA_PSS_SHA384 -> Return("RsaPssSha384")
      [] alg = yh_algorithm.YH_ALGO_RSA_PSS_SHA512 -> Return("RsaPssSha512")
      [] alg = yh_algorithm.YH_ALGO_RSA_2048 -> Return("Rsa2048")
      [] alg = yh_algorithm.YH_ALGO_RSA_3072 -> Return("Rsa3072")
      [] alg = yh_algorithm.YH_ALGO_RSA_4096 -> Return("Rsa4096")
      [] alg = yh_algorithm.YH_ALGO_EC_P224 -> Return("EcP224")
      [] alg = yh_algorithm.YH_ALGO_EC_P256 -> Return("EcP256")
      [] alg = yh_algorithm.YH_ALGO_EC_P384 -> Return("EcP384")
      [] alg = yh_algorithm.YH_ALGO_EC_P521 -> Return("EcP521")
      [] alg = yh_algorithm.YH_ALGO_EC_K256 -> Return("EcK256")
      [] alg = yh_algorithm.YH_ALGO_EC_BP256 -> Return("EcBp256")
      [] alg = yh_algorithm.YH_ALGO_EC_BP384 -> Return("EcBp384")
      [] alg = yh_algorithm.YH_ALGO_EC_BP512 -> Return("EcBp512")
      [] alg = yh_algorithm.YH_ALGO_HMAC_SHA1 -> Return("HmacSha1")
      [] alg = yh_algorithm.YH_ALGO_HMAC_SHA256 -> Return("HmacSha256")
      [] alg = yh_algorithm.YH_ALGO_HMAC_SHA384 -> Return("HmacSha384")
      [] alg = yh_algorithm.YH_ALGO_HMAC_SHA512 -> Return("HmacSha512")
      [] alg = yh_algorithm.YH_ALGO_EC_ECDSA_SHA1 -> Return("EcEcdsaSha1")
      [] alg = yh_algorithm.YH_ALGO_EC_ECDSA_SHA256 -> Return("EcEcdsaSha256")
      [] alg = yh_algorithm.YH_ALGO_EC_ECDSA_SHA384 -> Return("EcEcdsaSha384")
      [] alg = yh_algorithm.YH_ALGO_EC_ECDSA_SHA512 -> Return("EcEcdsaSha512")
      [] alg = yh_algorithm.YH_ALGO_EC_ECDH -> Return("EcEcdh")
      [] alg = yh_algorithm.YH_ALGO_RSA_OAEP_SHA1 -> Return("RsaOaepSha1")
      [] alg = yh_algorithm.YH_ALGO_RSA_OAEP_SHA256 -> Return("RsaOaepSha256")
      [] alg = yh_algorithm.YH_ALGO_RSA_OAEP_SHA384 -> Return("RsaOaepSha384")
      [] alg = yh_algorithm.YH_ALGO_RSA_OAEP_SHA512 -> Return("RsaOaepSha512")
      [] alg = yh_algorithm.YH_ALGO_AES128_CCM_WRAP -> Return("Aes128CcmWrap")
      [] alg = yh_algorithm.YH_ALGO_AES192_CCM_WRAP -> Return("Aes192CcmWrap")
      [] alg = yh_algorithm.YH_ALGO_AES256_CCM_WRAP -> Return("Aes256CcmWrap")
      [] alg = yh_algorithm.YH_ALGO_OPAQUE_DATA -> Return("OpaqueData")
      [] alg = yh_algorithm.YH_ALGO_OPAQUE_X509_CERT -> Return("OpaqueX509Cert")
      [] alg = yh_algorithm.YH_ALGO_MGF1_SHA1 -> Return("Mgf1Sha1")
      [] alg = yh_algorithm.YH_ALGO_MGF1_SHA256 -> Return("Mgf1Sha256")
      [] alg = yh_algorithm.YH_ALGO_MGF1_SHA384 -> Return("Mgf1Sha384")
      [] alg = yh_algorithm.YH_ALGO_MGF1_SHA512 -> Return("Mgf1Sha512")
      [] alg = yh_algorithm.YH_ALGO_TEMPL_SSH -> Return("TemplSsh")
      [] alg = yh_algorithm.YH_ALGO_YUBICO_OTP_AES128 -> Return("YubicoOtpAes128")
      [] alg = yh_algorithm.YH_ALGO_YUBICO_OTP_AES192 -> Return("YubicoOtpAes192")
      [] alg = yh_algorithm.YH_ALGO_YUBICO_OTP_AES256 -> Return("YubicoOtpAes256")
      [] alg = yh_algorithm.YH_ALGO_YUBICO_AES_AUTH -> Return("YubicoAesAuth")
      [] alg = yh_algorithm.YH_ALGO_EC_ED25519 -> Return("EcEd25519")
      [] OTHER -> Panic("unexpected algorithm type")

\* mutant: the arm of YH_ALGO_EC_P224, out of order in the enum, yields EcP256
Algorithm_from_P224AsP256(alg) ==
    IF alg = yh_algorithm.YH_ALGO_EC_P224 THEN Return("EcP256")
    ELSE Algorithm_match(alg)

\* impl From<yh_algorithm> for Algorithm
Algorithm_from(alg) == Algorithm_match(alg)

\* impl From<Algorithm> for yh_algorithm
yh_algorithm_from(alg) ==
    CASE alg = "RsaPkcs1Sha1" -> yh_algorithm.YH_ALGO_RSA_PKCS1_SHA1
      [] alg = "RsaPkcs1Sha256" -> yh_algorithm.YH_ALGO_RSA_PKCS1_SHA256
      [] alg = "RsaPkcs1Sha384" -> yh_algorithm.YH_ALGO_RSA_PKCS1_SHA384
      [] alg = "RsaPkcs1Sha512" -> yh_algorithm.YH_ALGO_RSA_PKCS1_SHA512
      [] alg = "RsaPssSha1" -> yh_algorithm.YH_ALGO_RSA_PSS_SHA1
      [] alg = "RsaPssSha256" -> yh_algorithm.YH_ALGO_RSA_PSS_SHA256
      [] alg = "RsaPssSha384" -> yh_algorithm.YH_ALGO_RSA_PSS_SHA384
      [] alg = "RsaPssSha512" -> yh_algorithm.YH_ALGO_RSA_PSS_SHA512
      [] alg = "Rsa2048" -> yh_algorithm.YH_ALGO_RSA_2048
      [] alg = "Rsa3072" -> yh_algorithm.YH_ALGO_RSA_3072
      [] alg = "Rsa4096" -> yh_algorithm.YH_ALGO_RSA_4096
      [] alg = "EcP224" -> yh_algorithm.YH_ALGO_EC_P224
      [] alg = "EcP256" -> yh_algorithm.YH_ALGO_EC_P256
      [] alg = "EcP384" -> yh_algorithm.YH_ALGO_EC_P384
      [] alg = "EcP521" -> yh_algorithm.YH_ALGO_EC_P521
      [] alg = "EcK256" -> yh_algorithm.YH_ALGO_EC_K256
      [] alg = "EcBp256" -> yh_algorithm.YH_ALGO_EC_BP256
      [] alg = "EcBp384" -> yh_algorithm.YH_ALGO_EC_BP384
      [] alg = "EcBp512" -> yh_algorithm.YH_ALGO_EC_BP512
      [] alg = "HmacSha1" -> yh_algorithm.YH_ALGO_HMAC_SHA1
      [] alg = "HmacSha256" -> yh_algorithm.YH_ALGO_HMAC_SHA256
      [] alg = "HmacSha384" -> yh_algorithm.YH_ALGO_HMAC_SHA384
      [] alg = "HmacSha512" -> yh_algorithm.YH_ALGO_HMAC_SHA512
      [] alg = "EcEcdsaSha1" -> yh_algorithm.YH_ALGO_EC_ECDSA_SHA1
      [] alg = "EcEcdsaSha256" -> yh_algorithm.YH_ALGO_EC_ECDSA_SHA256
      [] alg = "EcEcdsaSha384" -> yh_algorithm.YH_ALGO_EC_ECDSA_SHA384
      [] alg = "EcEcdsaSha512" -> yh_algorithm.YH_ALGO_EC_ECDSA_SHA512
      [] alg = "EcEcdh" -> yh_algorithm.YH_ALGO_EC_ECDH
      [] alg = "RsaOaepSha1" -> yh_algorithm.YH_ALGO_RSA_OAEP_SHA1
      [] alg = "RsaOaepSha256" -> yh_algorithm.YH_ALGO_RSA_OAEP_SHA256
      [] alg = "RsaOaepSha384" -> yh_algorithm.YH_ALGO_RSA_OAEP_SHA384
      [] alg = "RsaOaepSha512" -> yh_algorithm.YH_ALGO_RSA_OAEP_SHA512
      [] alg = "Aes128CcmWrap" -> yh_algorithm.YH_ALGO_AES128_CCM_WRAP
      [] alg = "Aes192CcmWrap" -> yh_algorithm.YH_ALGO_AES192_CCM_WRAP
      [] alg = "Aes256CcmWrap" -> yh_algorithm.YH_ALGO_AES256_CCM_WRAP
      [] alg = "OpaqueData" -> yh_algorithm.YH_ALGO_OPAQUE_DATA
      [] alg = "OpaqueX509Cert" -> yh_algorithm.YH_ALGO_OPAQUE_X509_CERT
      [] alg = "Mgf1Sha1" -> yh_algorithm.YH_ALGO_MGF1_SHA1
      [] alg = "Mgf1Sha256" -> yh_algorithm.YH_ALGO_MGF1_SHA256
      [] alg = "Mgf1Sha384" -> yh_algorithm.YH_ALGO_MGF1_SHA384
      [] alg = "Mgf1Sha512" -> yh_algorithm.YH_ALGO_MGF1_SHA512
      [] alg = "TemplSsh" -> yh_algorithm.YH_ALGO_TEMPL_SSH
      [] alg = "YubicoOtpAes128" -> yh_algorithm.YH_ALGO_YUBICO_OTP_AES128
      [] alg = "YubicoOtpAes192" -> yh_algorithm.YH_ALGO_YUBICO_OTP_AES192
      [] alg = "YubicoOtpAes256" -> yh_algorithm.YH_ALGO_YUBICO_OTP_AES256
      [] alg = "YubicoAesAuth" -> yh_algorithm.YH_ALGO_YUBICO_AES_AUTH
      [] alg = "EcEd25519" -> yh_algorithm.YH_ALGO_EC_ED25519

\* largest number given to Algorithm::from
MaxAlgorithmInput == 60

AlgorithmFrom ==
    /\ op = "start"
    /\ \E n \in 0 .. MaxAlgorithmInput :
        /\ op' = "Algorithm::from"
        /\ arg' = n
        /\ ret' = Algorithm_from(n)

AlgorithmInto ==
    /\ op = "start"
    /\ \E alg \in Algorithms :
        /\ op' = "yh_algorithm::from"
        /\ arg' = alg
        /\ ret' = Return(yh_algorithm_from(alg))

\* the code just produced is converted back; arg stays the Algorithm
AlgorithmFromEncoded ==
    /\ op = "yh_algorithm::from"
    /\ op' = "Algorithm::from(yh_algorithm::from)"
    /\ arg' = arg
    /\ ret' = Algorithm_from(ret.val)

\* the Algorithm just produced is converted back; arg stays the code
AlgorithmIntoDecoded ==
    /\ op = "Algorithm::from"
    /\ ret.tag = "Return"
    /\ op' = "yh_algorithm::from(Algorithm::from)"
    /\ arg' = arg
    /\ ret' = Return(yh_algorithm_from(ret.val))

(***************************************************************************)
(* Capability.  A Capability is the name of its variant; its string form   *)
(* is the name libyubihsm uses.                                            *)
(***************************************************************************)
Capabilities == {
    "GetOpaque", "PutOpaque", "PutAuthKey", "PutAsymmetric",
    "AsymmetricGen", "AsymmetricSignPkcs", "AsymmetricSignPss",
    "AsymmetricSignEcdsa", "AsymmetricSignEddsa", "AsymmetricDecryptPkcs",
    "AsymmetricDecryptOaep", "AsymmetricDecryptEcdh", "ExportWrapped",
    "ImportWrapped", "PutWrapkey", "GenerateWrapkey", "ExportUnderWrap",
    "PutOption", "GetOption", "GetRandomness", "PutHmackey",
    "HmackeyGenerate", "HmacData", "HmacVerify", "Audit", "SshCertify",
    "GetTemplate", "PutTemplate", "Reset", "OtpDecrypt", "OtpAeadCreate",
    "OtpAeadRandom", "OtpAeadRewrapFrom", "OtpAeadRewrapTo", "Attest",
    "PutOtpAeadKey", "GenerateOtpAeadKey", "WrapData", "UnwrapData",
    "DeleteOpaque", "DeleteAuthkey", "DeleteAsymmetric", "DeleteWrapKey",
    "DeleteHmacKey", "DeleteTemplate", "DeleteOtpAeadKey", "Unknown"}

\* impl From<&Capability> for String
String_from_Capability(cap) ==
    CASE cap = "GetOpaque" -> "get_opaque"
      [] cap = "PutOpaque" -> "put_opaque"
      [] cap = "PutAuthKey" -> "put_authkey"
      [] cap = "PutAsymmetric" -> "put_asymmetric"
      [] cap = "AsymmetricGen" -> "asymmetric_gen"
      [] cap = "AsymmetricSignPkcs" -> "asymmetric_sign_pkcs"
      [] cap = "AsymmetricSignPss" -> "asymmetric_sign_pss"
      [] cap = "AsymmetricSignEcdsa" -> "asymmetric_sign_ecdsa"
      [] cap = "AsymmetricSignEddsa" -> "asymmetric_sign_eddsa"
      [] cap = "AsymmetricDecryptPkcs" -> "asymmetric_decrypt_pkcs"
      [] cap = "AsymmetricDecryptOaep" -> "asymmetric_decrypt_oaep"
      [] cap = "AsymmetricDecryptEcdh" -> "asymmetric_decrypt_ecdh"
      [] cap = "ExportWrapped" -> "export_wrapped"
      [] cap = "ImportWrapped" -> "import_wrapped"
      [] cap = "PutWrapkey" -> "put_wrapkey"
      [] cap = "GenerateWrapkey" -> "generate_wrapkey"
      [] cap = "ExportUnderWrap" -> "export_under_wrap"
      [] cap = "PutOption" -> "put_option"
      [] cap = "GetOption" -> "get_option"
      [] cap = "GetRandomness" -> "get_randomness"
      [] cap = "PutHmackey" -> "put_hmackey"
      [] cap = "HmackeyGenerate" -> "hmackey_generate"
      [] cap = "HmacData" -> "hmac_data"
      [] cap = "HmacVerify" -> "hmac_verify"
      [] cap = "Audit" -> "audit"
      [] cap = "SshCertify" -> "ssh_certify"
      [] cap = "GetTemplate" -> "get_template"
      [] cap = "PutTemplate" -> "put_template"
      [] cap = "Reset" -> "reset"
      [] cap = "OtpDecrypt" -> "otp_decrypt"
      [] cap = "OtpAeadCreate" -> "otp_aead_create"
      [] cap = "OtpAeadRandom" -> "otp_aead_random"
      [] cap = "OtpAeadRewrapFrom" -> "otp_aead_rewrap_from"
      [] cap = "OtpAeadRewrapTo" -> "otp_aead_rewrap_to"
      [] cap = "Attest" -> "attest"
      [] cap = "PutOtpAeadKey" -> "put_otp_aead_key"
      [] cap = "GenerateOtpAeadKey" -> "generate_otp_aead_key"
      [] cap = "WrapData" -> "wrap_data"
      [] cap = "UnwrapData" -> "unwrap_data"
      [] cap = "DeleteOpaque" -> "delete_opaque"
      [] cap = "DeleteAuthkey" -> "delete_authkey"
      [] cap = "DeleteAsymmetric" -> "delete_asymmetric"
      [] cap = "DeleteWrapKey" -> "delete_wrapkey"
      [] cap = "DeleteHmacKey" -> "delete_hmackey"
      [] cap = "DeleteTemplate" -> "delete_template"
      [] cap = "DeleteOtpAeadKey" -> "delete_otp_aead_key"
      [] cap = "Unknown" -> "unknown"

\* the match of impl From<T> for Capability
Capability_match(s) ==
    CASE s = "get_opaque" -> "GetOpaque"
      [] s = "put_opaque" -> "PutOpaque"
      [] s = "put_authkey" -> "PutAuthKey"
      [] s = "put_asymmetric" -> "PutAsymmetric"
      [] s = "asymmetric_gen" -> "AsymmetricGen"
      [] s = "asymmetric_sign_pkcs" -> "AsymmetricSignPkcs"
      [] s = "asymmetric_sign_pss" -> "AsymmetricSignPss"
      [] s = "asymmetric_sign_ecdsa" -> "AsymmetricSignEcdsa"
      [] s = "asymmetric_sign_eddsa" -> "AsymmetricSignEddsa"
      [] s = "asymmetric_decrypt_pkcs" -> "AsymmetricDecryptPkcs"
      [] s = "asymmetric_decrypt_oaep" -> "AsymmetricDecryptOaep"
      [] s = "asymmetric_decrypt_ecdh" -> "AsymmetricDecryptEcdh"
      [] s = "export_wrapped" -> "ExportWrapped"
      [] s = "import_wrapped" -> "ImportWrapped"
      [] s = "put_wrapkey" -> "PutWrapkey"
      [] s = "generate_wrapkey" -> "GenerateWrapkey"
      [] s = "export_under_wrap" -> "ExportUnderWrap"
      [] s = "put_option" -> "PutOption"
      [] s = "get_option" -> "GetOption"
      [] s = "get_randomness" -> "GetRandomness"
      [] s = "put_hmackey" -> "PutHmackey"
      [] s = "hmackey_generate" -> "HmackeyGenerate"
      [] s = "hmac_data" -> "HmacData"
      [] s = "hmac_verify" -> "HmacVerify"
      [] s = "audit" -> "Audit"
      [] s = "ssh_certify" -> "SshCertify"
      [] s = "get_template" -> "GetTemplate"
      [] s = "put_template" -> "PutTemplate"
      [] s = "reset" -> "Reset"
      [] s = "otp_decrypt" -> "OtpDecrypt"
      [] s = "otp_aead_create" -> "OtpAeadCreate"
      [] s = "otp_aead_random" -> "OtpAeadRandom"
      [] s = "otp_aead_rewrap_from" -> "OtpAeadRewrapFrom"
      [] s = "otp_aead_rewrap_to" -> "OtpAeadRewrapTo"
      [] s = "attest" -> "Attest"
      [] s = "put_otp_aead_key" -> "PutOtpAeadKey"
      [] s = "generate_otp_aead_key" -> "GenerateOtpAeadKey"
      [] s = "wrap_data" -> "WrapData"
      [] s = "unwrap_data" -> "UnwrapData"
      [] s = "delete_opaque" -> "DeleteOpaque"
      [] s = "delete_authkey" -> "DeleteAuthkey"
      [] s = "delete_asymmetric" -> "DeleteAsymmetric"
      [] s = "delete_wrapkey" -> "DeleteWrapKey"
      [] s = "delete_hmackey" -> "DeleteHmacKey"
      [] s = "delete_template" -> "DeleteTemplate"
      [] s = "delete_otp_aead_key" -> "DeleteOtpAeadKey"
      [] OTHER -> "Unknown"

\* mutant: the arm of "delete_hmackey" is missing
Capability_from_NoDeleteHmacKey(s) ==
    IF s = "delete_hmackey" THEN Return("Unknown") ELSE Return(Capability_match(s))

\* impl From<T: AsRef<str>> for Capability
Capability_from(s) == Return(Capability_match(s))

\* strings given to Capability::from that are the name of no known capability
OtherStrings ==
    {"not_a_real_capability", "unknown", "", "GET_OPAQUE", "get_opaque ",
     "get-opaque", "getopaque", "get_opaque,put_opaque", "delete_hmac_key"}

CapabilityToString ==
    /\ op = "start"
    /\ \E cap \in Capabilities :
        /\ op' = "String::from(Capability)"
        /\ arg' = cap
        /\ ret' = Return(String_from_Capability(cap))

CapabilityFrom ==
    /\ op = "start"
    /\ \E s \in {String_from_Capability(cap) : cap \in Capabilities} \cup OtherStrings :
        /\ op' = "Capability::from"
        /\ arg' = s
        /\ ret' = Capability_from(s)

\* the name just produced is converted back; arg stays the Capability
CapabilityFromName ==
    /\ op = "String::from(Capability)"
    /\ op' = "Capability::from(String::from(Capability))"
    /\ arg' = arg
    /\ ret' = Capability_from(ret.val)

(***************************************************************************)
(* ReturnCode.  A ReturnCode is the name of its variant, a yh_rc the       *)
(* number libyubihsm returns.                                              *)
(***************************************************************************)
ReturnCodes == {
    "Success", "Memory", "InitError", "NetError", "ConnectorNotFound",
    "InvalidParams", "WrongLength", "BufferTooSmall", "CryptogramMismatch",
    "AuthSessionError", "MacMismatch", "DeviceOk", "DeviceInvCommand",
    "DeviceInvData", "DeviceInvSession", "DeviceAuthFail",
    "DeviceSessionsFull", "DeviceSessionFailed", "DeviceStorageFailed",
    "DeviceWrongLength", "DeviceInvPermission", "DeviceLogFull",
    "DeviceObjNotFound", "DeviceIdIllegal", "DeviceInvalidOtp",
    "DeviceDemoMode", "DeviceCmdUnexecuted", "GenericError",
    "DeviceObjectExists", "ConnectorError"}

\* The yh_rc_YHR_* constants that `use yubihsm_sys::*` brings in: the values
\* of the enum yh_rc of libyubihsm's yubihsm.h.
yh_rc == [
    YHR_SUCCESS |-> 0, YHR_MEMORY |-> -1, YHR_INIT_ERROR |-> -2,
    YHR_NET_ERROR |-> -3, YHR_CONNECTOR_NOT_FOUND |-> -4,
    YHR_INVALID_PARAMS |-> -5, YHR_WRONG_LENGTH |-> -6,
    YHR_BUFFER_TOO_SMALL |-> -7, YHR_CRYPTOGRAM_MISMATCH |-> -8,
    YHR_AUTH_SESSION_ERROR |-> -9, YHR_MAC_MISMATCH |-> -10,
    YHR_DEVICE_OK |-> -11, YHR_DEVICE_INV_COMMAND |-> -12,
    YHR_DEVICE_INV_DATA |-> -13, YHR_DEVICE_INV_SESSION |-> -14,
    YHR_DEVICE_AUTH_FAIL |-> -15, YHR_DEVICE_SESSIONS_FULL |-> -16,
    YHR_DEVICE_SESSION_FAILED |-> -17, YHR_DEVICE_STORAGE_FAILED |-> -18,
    YHR_DEVICE_WRONG_LENGTH |-> -19, YHR_DEVICE_INV_PERMISSION |-> -20,
    YHR_DEVICE_LOG_FULL |-> -21, YHR_DEVICE_OBJ_NOT_FOUND |-> -22,
    YHR_DEVICE_ID_ILLEGAL |-> -23, YHR_DEVICE_INVALID_OTP |-> -24,
    YHR_DEVICE_DEMO_MODE |-> -25, YHR_DEVICE_CMD_UNEXECUTED |-> -26,
    YHR_GENERIC_ERROR |-> -27, YHR_DEVICE_OBJECT_EXISTS |-> -28,
    YHR_CONNECTOR_ERROR |-> -29]

\* the match of impl From<yh_rc> for ReturnCode
ReturnCode_match(rc) ==
    CASE rc = yh_rc.YHR_SUCCESS -> Return("Success")
      [] rc = yh_rc.YHR_MEMORY -> Return("Memory")
      [] rc = yh_rc.YHR_INIT_ERROR -> Return("InitError")
      [] rc = yh_rc.YHR_NET_ERROR -> Return("NetError")
      [] rc = yh_rc.YHR_CONNECTOR_NOT_FOUND -> Return("ConnectorNotFound")
      [] rc = yh_rc.YHR_INVALID_PARAMS -> Return("InvalidParams")
      [] rc = yh_rc.YHR_WRONG_LENGTH -> Return("WrongLength")
      [] rc = yh_rc.YHR_BUFFER_TOO_SMALL -> Return("BufferTooSmall")
      [] rc = yh_rc.YHR_CRYPTOGRAM_MISMATCH -> Return("CryptogramMismatch")
      [] rc = yh_rc.YHR_AUTH_SESSION_ERROR -> Return("AuthSessionError")
      [] rc = yh_rc.YHR_MAC_MISMATCH -> Return("MacMismatch")
      [] rc = yh_rc.YHR_DEVICE_OK -> Return("DeviceOk")
      [] rc = yh_rc.YHR_DEVICE_INV_COMMAND -> Return("DeviceInvCommand")
      [] rc = yh_rc.YHR_DEVICE_INV_DATA -> Return("DeviceInvData")
      [] rc = yh_rc.YHR_DEVICE_INV_SESSION -> Return("DeviceInvSession")
      [] rc = yh_rc.YHR_DEVICE_AUTH_FAIL -> Return("DeviceAuthFail")
      [] rc = yh_rc.YHR_DEVICE_SESSIONS_FULL -> Return("DeviceSessionsFull")
      [] rc = yh_rc.YHR_DEVICE_SESSION_FAILED -> Return("DeviceSessionFailed")
      [] rc = yh_rc.YHR_DEVICE_STORAGE_FAILED -> Return("DeviceStorageFailed")
      [] rc = yh_rc.YHR_DEVICE_WRONG_LENGTH -> Return("DeviceWrongLength")
      [] rc = yh_rc.YHR_DEVICE_INV_PERMISSION -> Return("DeviceInvPermission")
      [] rc = yh_rc.YHR_DEVICE_LOG_FULL -> Return("DeviceLogFull")
      [] rc = yh_rc.YHR_DEVICE_OBJ_NOT_FOUND -> Return("DeviceObjNotFound")
      [] rc = yh_rc.YHR_DEVICE_ID_ILLEGAL -> Return("DeviceIdIllegal")
      [] rc = yh_rc.YHR_DEVICE_INVALID_OTP -> Return("DeviceInvalidOtp")
      [] rc = yh_rc.YHR_DEVICE_DEMO_MODE -> Return("DeviceDemoMode")
      [] rc = yh_rc.YHR_DEVICE_CMD_UNEXECUTED -> Return("DeviceCmdUnexecuted")
      [] rc = yh_rc.YHR_GENERIC_ERROR -> Return("GenericError")
      [] rc = yh_rc.YHR_DEVICE_OBJECT_EXISTS -> Return("DeviceObjectExists")
      [] rc = yh_rc.YHR_CONNECTOR_ERROR -> Return("ConnectorError")
      [] OTHER -> Panic("unexpected return code")

\* mutant: an unexpected code is coerced to GenericError
ReturnCode_from_UnknownAsGeneric(rc) ==
    IF ReturnCode_match(rc).tag = "Panic" THEN Return("GenericError")
    ELSE ReturnCode_match(rc)

\* impl From<yh_rc> for ReturnCode
ReturnCode_from(rc) == ReturnCode_match(rc)

\* impl From<ReturnCode> for yh_rc
yh_rc_from(rc) ==
    CASE rc = "Success" -> yh_rc.YHR_SUCCESS
      [] rc = "Memory" -> yh_rc.YHR_MEMORY
      [] rc = "InitError" -> yh_rc.YHR_INIT_ERROR
      [] rc = "NetError" -> yh_rc.YHR_NET_ERROR
      [] rc = "ConnectorNotFound" -> yh_rc.YHR_CONNECTOR_NOT_FOUND
      [] rc = "InvalidParams" -> yh_rc.YHR_INVALID_PARAMS
      [] rc = "WrongLength" -> yh_rc.YHR_WRONG_LENGTH
      [] rc = "BufferTooSmall" -> yh_rc.YHR_BUFFER_TOO_SMALL
      [] rc = "CryptogramMismatch" -> yh_rc.YHR_CRYPTOGRAM_MISMATCH
      [] rc = "AuthSessionError" -> yh_rc.YHR_AUTH_SESSION_ERROR
      [] rc = "MacMismatch" -> yh_rc.YHR_MAC_MISMATCH
      [] rc = "DeviceOk" -> yh_rc.YHR_DEVICE_OK
      [] rc = "DeviceInvCommand" -> yh_rc.YHR_DEVICE_INV_COMMAND
      [] rc = "DeviceInvData" -> yh_rc.YHR_DEVICE_INV_DATA
      [] rc = "DeviceInvSession" -> yh_rc.YHR_DEVICE_INV_SESSION
      [] rc = "DeviceAuthFail" -> yh_rc.YHR_DEVICE_AUTH_FAIL
      [] rc = "DeviceSessionsFull" -> yh_rc.YHR_DEVICE_SESSIONS_FULL
      [] rc = "DeviceSessionFailed" -> yh_rc.YHR_DEVICE_SESSION_FAILED
      [] rc = "DeviceStorageFailed" -> yh_rc.YHR_DEVICE_STORAGE_FAILED
      [] rc = "DeviceWrongLength" -> yh_rc.YHR_DEVICE_WRONG_LENGTH
      [] rc = "DeviceInvPermission" -> yh_rc.YHR_DEVICE_INV_PERMISSION
      [] rc = "DeviceLogFull" -> yh_rc.YHR_DEVICE_LOG_FULL
      [] rc = "DeviceObjNotFound" -> yh_rc.YHR_DEVICE_OBJ_NOT_FOUND
      [] rc = "DeviceIdIllegal" -> yh_rc.YHR_DEVICE_ID_ILLEGAL
      [] rc = "DeviceInvalidOtp" -> yh_rc.YHR_DEVICE_INVALID_OTP
      [] rc = "DeviceDemoMode" -> yh_rc.YHR_DEVICE_DEMO_MODE
      [] rc = "DeviceCmdUnexecuted" -> yh_rc.YHR_DEVICE_CMD_UNEXECUTED
      [] rc = "GenericError" -> yh_rc.YHR_GENERIC_ERROR
      [] rc = "DeviceObjectExists" -> yh_rc.YHR_DEVICE_OBJECT_EXISTS
      [] rc = "ConnectorError" -> yh_rc.YHR_CONNECTOR_ERROR

\* the numbers given to ReturnCode::from are -MaxReturnCodeInput .. MaxReturnCodeInput
MaxReturnCodeInput == 40

ReturnCodeFrom ==
    /\ op = "start"
    /\ \E n \in (0 - MaxReturnCodeInput) .. MaxReturnCodeInput :
        /\ op' = "ReturnCode::from"
        /\ arg' = n
        /\ ret' = ReturnCode_from(n)

ReturnCodeInto ==
    /\ op = "start"
    /\ \E rc \in ReturnCodes :
        /\ op' = "yh_rc::from"
        /\ arg' = rc
        /\ ret' = Return(yh_rc_from(rc))

\* the code of a ReturnCode is converted back
ReturnCodeFromEncoded ==
    /\ op = "yh_rc::from"
    /\ op' = "ReturnCode::from(yh_rc::from)"
    /\ arg' = arg
    /\ ret' = ReturnCode_from(ret.val)

(***************************************************************************)
(* ObjectType.  An ObjectType is the name of its variant, a yh_object_type *)
(* the number libyubihsm uses.                                             *)
(***************************************************************************)
ObjectTypes == {
    "Asymmetric", "AuthKey", "HmacKey", "Opaque", "OtpAeadKey", "Public",
    "Template", "WrapKey"}

\* The yh_object_type_YH_* constants that `use yubihsm_sys::*` brings in: the
\* values of the enum yh_object_type of libyubihsm's yubihsm.h.
yh_object_type == [
    YH_OPAQUE |-> 1, YH_AUTHKEY |-> 2, YH_ASYMMETRIC |-> 3, YH_WRAPKEY |-> 4,
    YH_HMACKEY |-> 5, YH_TEMPLATE |-> 6, YH_OTP_AEAD_KEY |-> 7,
    YH_PUBLIC |-> 131]

\* the match of impl From<yh_object_type> for ObjectType
ObjectType_match(obj) ==
    CASE obj = yh_object_type.YH_ASYMMETRIC -> Return("Asymmetric")
      [] obj = yh_object_type.YH_AUTHKEY -> Return("AuthKey")
      [] obj = yh_object_type.YH_HMACKEY -> Return("HmacKey")
      [] obj = yh_object_type.YH_OPAQUE -> Return("Opaque")
      [] obj = yh_object_type.YH_OTP_AEAD_KEY -> Return("OtpAeadKey")
      [] obj = yh_object_type.YH_PUBLIC -> Return("Public")
      [] obj = yh_object_type.YH_TEMPLATE -> Return("Template")
      [] obj = yh_object_type.YH_WRAPKEY -> Return("WrapKey")
      [] OTHER -> Panic("unexpected object type")

\* mutant: the code of Public is decoded as Asymmetric
ObjectType_from_PublicAsAsymmetric(obj) ==
    IF obj = yh_object_type.YH_PUBLIC THEN Return("Asymmetric")
    ELSE ObjectType_match(obj)

\* mutant: an unexpected code is coerced to Opaque
ObjectType_from_UnknownAsOpaque(obj) ==
    IF ObjectType_match(obj).tag = "Panic" THEN Return("Opaque")
    ELSE ObjectType_match(obj)

\* impl From<yh_object_type> for ObjectType
ObjectType_from(obj) == ObjectType_match(obj)

\* impl From<ObjectType> for yh_object_type
yh_object_type_from(obj) ==
    CASE obj = "Asymmetric" -> yh_object_type.YH_ASYMMETRIC
      [] obj = "AuthKey" -> yh_object_type.YH_AUTHKEY
      [] obj = "HmacKey" -> yh_object_type.YH_HMACKEY
      [] obj = "Opaque" -> yh_object_type.YH_OPAQUE
      [] obj = "OtpAeadKey" -> yh_object_type.YH_OTP_AEAD_KEY
      [] obj = "Public" -> yh_object_type.YH_PUBLIC
      [] obj = "Template" -> yh_object_type.YH_TEMPLATE
      [] obj = "WrapKey" -> yh_object_type.YH_WRAPKEY

\* the numbers given to ObjectType::from are 0 .. MaxObjectTypeInput
MaxObjectTypeInput == 140

ObjectTypeFrom ==
    /\ op = "start"
    /\ \E n \in 0 .. MaxObjectTypeInput :
        /\ op' = "ObjectType::from"
        /\ arg' = n
        /\ ret' = ObjectType_from(n)

ObjectTypeInto ==
    /\ op = "start"
    /\ \E obj \in ObjectTypes :
        /\ op' = "yh_object_type::from"
        /\ arg' = obj
        /\ ret' = Return(yh_object_type_from(obj))

\* the code of an ObjectType is converted back
ObjectTypeFromEncoded ==
    /\ op = "yh_object_type::from"
    /\ op' = "ObjectType::from(yh_object_type::from)"
    /\ arg' = arg
    /\ ret' = ObjectType_from(ret.val)

Next ==
    \/ CommandTypeToU8
    \/ CommandToU8
    \/ CommandFrom
    \/ CommandFromEncoded
    \/ AlgorithmFrom
    \/ AlgorithmInto
    \/ AlgorithmFromEncoded
    \/ AlgorithmIntoDecoded
    \/ CapabilityToString
    \/ CapabilityFrom
    \/ CapabilityFromName
    \/ ReturnCodeFrom
    \/ ReturnCodeInto
    \/ ReturnCodeFromEncoded
    \/ ObjectTypeFrom
    \/ ObjectTypeInto
    \/ ObjectTypeFromEncoded
    \/ Drop

Spec == Init /\ [][Next]_vars

(***************************************************************************)
(* Capability::try_from_yh_capabilities.  libyubihsm's                     *)
(* yh_num_to_capabilities is outside this crate: what it did is the record *)
(* lib, with rc the yh_rc it returned, n_cap_strs the count it left in the *)
(* in/out parameter and strs the C strings whose pointers it wrote into    *)
(* lib_cap_strs.  A C string is a record: utf8 says whether its bytes are  *)
(* valid UTF-8, text is the text they spell.                               *)
(***************************************************************************)
CStr(text) == [utf8 |-> TRUE, text |-> text]

\* CStr::to_str
CStr_to_str(x) == IF x.utf8 THEN Ok(x.text) ELSE Err("Utf8Error")

\* the length of lib_cap_strs and the initial value of n_cap_strs
CAP_STRS_LEN == 64

\* mutant: the slice is cut off at the end of the array
Slice_to_Truncate(strs, n) ==
    Return(SubSeq(strs, 1, IF n > CAP_STRS_LEN THEN CAP_STRS_LEN ELSE n))

\* lib_cap_strs[..n_cap_strs]: the range is checked against the array's length
Slice_to(strs, n) ==
    IF n > CAP_STRS_LEN THEN Panic("range end index out of range for slice")
    ELSE Return(SubSeq(strs, 1, n))

\* mutant: names that map to Capability::Unknown are left out of the list
Capability_collect_SkipUnknown(strs) ==
    IF \E i \in 1 .. Len(strs) : CStr_to_str(strs[i]).tag = "Err"
    THEN Err("Utf8Error")
    ELSE Ok(SelectSeq([i \in 1 .. Len(strs) |->
                          Capability_from(CStr_to_str(strs[i]).val).val],
                      LAMBDA c : c # "Unknown"))

\* .into_iter().map(..).collect::<Result<Vec<_>, Utf8Error>>().map_err(..):
\* each pointer goes through CStr::to_str and Capability::from; the first
\* Utf8Error, if there is one, is the result, else the list of all of them
Capability_collect(strs) ==
    IF \E i \in 1 .. Len(strs) : CStr_to_str(strs[i]).tag = "Err"
    THEN Err("Utf8Error")
    ELSE Ok([i \in 1 .. Len(strs) |->
                Capability_from(CStr_to_str(strs[i]).val).val])

\* Capability::try_from_yh_capabilities, given what the library call did
Capability_try_from_yh_capabilities(lib) ==
    LET ret_code == ReturnCode_from(lib.rc)
    IN  IF ret_code.tag = "Panic" THEN ret_code
        ELSE IF ret_code.val # "Success"
        THEN Return(Err("yh_num_to_capabilities failed"))
        ELSE LET strs == Slice_to(lib.strs, lib.n_cap_strs)
             IN  IF strs.tag = "Panic" THEN strs
                 ELSE Return(Capability_collect(strs.val))

\* names the library reports: two known ones and one this crate does not know
CapNames == {"get_opaque", "delete_hmackey", "not_a_real_capability"}

\* longest list of arbitrary names the library reports; the lists that fill
\* the array, or overrun it by one, repeat one name
MaxCapNames == 2

\* the C strings the library wrote when it reports n names: it is given the
\* array's length and writes no more than CAP_STRS_LEN pointers
StrsWritten(names) ==
    [i \in 1 .. (IF Len(names) > CAP_STRS_LEN THEN CAP_STRS_LEN ELSE Len(names))
        |-> CStr(names[i])]

NamesReported ==
    BoundedSeq(CapNames, MaxCapNames)
        \cup {[i \in 1 .. n |-> name] :
                 n \in {CAP_STRS_LEN, CAP_STRS_LEN + 1}, name \in CapNames}

\* what yh_num_to_capabilities may have done: a code of the enum yh_rc, and
\* on success a list of names
LibOutcomes ==
    {[rc |-> yh_rc_from(rc), n_cap_strs |-> Len(names), strs |-> StrsWritten(names)] :
        rc \in ReturnCodes, names \in NamesReported}

CapabilitiesDecode ==
    /\ op = "start"
    /\ \E lib \in LibOutcomes :
        /\ op' = "Capability::try_from_yh_capabilities"
        /\ arg' = lib
        /\ ret' = Capability_try_from_yh_capabilities(lib)

(***************************************************************************)
(* ObjectInfo::try_from_yh_object_descriptor.  A String is the sequence of *)
(* its code points.                                                        *)
(***************************************************************************)
None == [tag |-> "None"]

Some(v) == [tag |-> "Some", val |-> v]

\* mutant: the code 0 is given to Algorithm::from like any other
ObjectInfo_algorithm_NoZeroCase(algorithm) ==
    LET alg == Algorithm_from(algorithm)
    IN  IF alg.tag = "Panic" THEN alg ELSE Return(Some(alg.val))

\* if o.algorithm == 0 { None } else { Some(Algorithm::from(o.algorithm)) }
ObjectInfo_algorithm(algorithm) ==
    IF algorithm = 0 THEN Return(None)
    ELSE LET alg == Algorithm_from(algorithm)
         IN  IF alg.tag = "Panic" THEN alg ELSE Return(Some(alg.val))

\* CStr::from_ptr(buf).to_bytes(): the bytes before the first NUL
CStr_from_ptr(buf) ==
    LET nul == CHOOSE i \in 1 .. Len(buf) :
                   buf[i] = 0 /\ \A j \in 1 .. (i - 1) : buf[j] # 0
    IN  SubSeq(buf, 1, nul - 1)

\* U+FFFD, which the lossy conversion puts in place of an invalid sequence
REPLACEMENT_CHARACTER == 65533

\* the byte at index i, or 0 past the end (a 0 continues no sequence)
Utf8_byte(v, i) == IF i <= Len(v) THEN v[i] ELSE 0

\* the length of the sequence a first byte announces, 0 for a byte that
\* begins none
Utf8_char_width(b) ==
    CASE b \in 0 .. 127 -> 1
      [] b \in 194 .. 223 -> 2
      [] b \in 224 .. 239 -> 3
      [] b \in 240 .. 244 -> 4
      [] OTHER -> 0

\* whether `second` may follow the first byte `first` of a sequence
Utf8_second_ok(first, second) ==
    CASE first = 224 -> second \in 160 .. 191
      [] first = 237 -> second \in 128 .. 159
      [] first = 240 -> second \in 144 .. 191
      [] first = 244 -> second \in 128 .. 143
      [] OTHER -> second \in 128 .. 191

Utf8_cont(b) == b \in 128 .. 191

\* the chunk that begins at index i: a decoded character and its length, or
\* the replacement character and the length of the invalid bytes it stands for
Utf8_chunk(v, i) ==
    LET first == v[i]
        second == Utf8_byte(v, i + 1)
        third == Utf8_byte(v, i + 2)
        fourth == Utf8_byte(v, i + 3)
        width == Utf8_char_width(first)
        bad(n) == [len |-> n, ch |-> REPLACEMENT_CHARACTER]
    IN  CASE width = 1 -> [len |-> 1, ch |-> first]
          [] width = 2 ->
                IF ~Utf8_second_ok(first, second) THEN bad(1)
                ELSE [len |-> 2, ch |-> (first % 32) * 64 + (second % 64)]
          [] width = 3 ->
                IF ~Utf8_second_ok(first, second) THEN bad(1)
                ELSE IF ~Utf8_cont(third) THEN bad(2)
                ELSE [len |-> 3,
                      ch |-> (first % 16) * 4096 + (second % 64) * 64
                                + (third % 64)]
          [] width = 4 ->
                IF ~Utf8_second_ok(first, second) THEN bad(1)
                ELSE IF ~Utf8_cont(third) THEN bad(2)
                ELSE IF ~Utf8_cont(fourth) THEN bad(3)
                ELSE [len |-> 4,
                      ch |-> (first % 8) * 262144 + (second % 64) * 4096
                                + (third % 64) * 64 + (fourth % 64)]
          [] OTHER -> bad(1)

RECURSIVE String_from_utf8_lossy_from(_, _, _)
String_from_utf8_lossy_from(v, i, out) ==
    IF i > Len(v) THEN out
    ELSE LET chunk == Utf8_chunk(v, i)
         IN  String_from_utf8_lossy_from(v, i + chunk.len, Append(out, chunk.ch))

\* CStr::to_string_lossy().to_string()
String_from_utf8_lossy(v) == String_from_utf8_lossy_from(v, 1, <<>>)

\* mutant: the label is converted strictly, and is empty when its bytes are
\* invalid UTF-8
ObjectInfo_label_Strict(buf) ==
    IF REPLACEMENT_CHARACTER \in Range(String_from_utf8_lossy(CStr_from_ptr(buf)))
    THEN <<>>
    ELSE String_from_utf8_lossy(CStr_from_ptr(buf))

\* unsafe { CStr::from_ptr(o.label.as_ptr()) }.to_string_lossy().to_string()
ObjectInfo_label(buf) == String_from_utf8_lossy(CStr_from_ptr(buf))

\* mutant: a failed decode of the delegated capabilities leaves the field
\* empty instead of failing the decode
ObjectInfo_try_from_EmptyDelegatedOnErr(o) ==
    LET capabilities == Capability_try_from_yh_capabilities(o.capabilities)
        object_type == ObjectType_from(o.type_)
        algorithm == ObjectInfo_algorithm(o.algorithm)
        delegated == Capability_try_from_yh_capabilities(o.delegated_capabilities)
    IN  IF capabilities.tag = "Panic" \/ capabilities.val.tag = "Err"
        THEN capabilities
        ELSE IF object_type.tag = "Panic" THEN object_type
        ELSE IF algorithm.tag = "Panic" THEN algorithm
        ELSE IF delegated.tag = "Panic" THEN delegated
        ELSE Return(Ok([
                capabilities |-> capabilities.val.val,
                id |-> o.id,
                length |-> o.len,
                domains |-> Vec_from_DomainParam(o.domains),
                object_type |-> object_type.val,
                algorithm |-> algorithm.val,
                sequence |-> o.sequence,
                origin |-> o.origin,
                label |-> ObjectInfo_label(o.label),
                delegated_capabilities |->
                    IF delegated.val.tag = "Err" THEN <<>>
                    ELSE delegated.val.val]))

\* ObjectInfo::try_from_yh_object_descriptor: the fields of the struct
\* expression are evaluated in the order they are written; `?` returns the
\* Err of a capability decode at once, a panic unwinds at once
ObjectInfo_try_from_yh_object_descriptor(o) ==
    LET capabilities == Capability_try_from_yh_capabilities(o.capabilities)
        object_type == ObjectType_from(o.type_)
        algorithm == ObjectInfo_algorithm(o.algorithm)
        delegated == Capability_try_from_yh_capabilities(o.delegated_capabilities)
    IN  IF capabilities.tag = "Panic" \/ capabilities.val.tag = "Err"
        THEN capabilities
        ELSE IF object_type.tag = "Panic" THEN object_type
        ELSE IF algorithm.tag = "Panic" THEN algorithm
        ELSE IF delegated.tag = "Panic" \/ delegated.val.tag = "Err"
        THEN delegated
        ELSE Return(Ok([
                capabilities |-> capabilities.val.val,
                id |-> o.id,
                length |-> o.len,
                domains |-> Vec_from_DomainParam(o.domains),
                object_type |-> object_type.val,
                algorithm |-> algorithm.val,
                sequence |-> o.sequence,
                origin |-> o.origin,
                label |-> ObjectInfo_label(o.label),
                delegated_capabilities |-> delegated.val.val]))

\* what yh_num_to_capabilities does for the capabilities and the delegated
\* capabilities of a descriptor: it reports two names, or none, or fails, or
\* reports one name more than the array holds
LibOk(names) ==
    [rc |-> yh_rc.YHR_SUCCESS, n_cap_strs |-> Len(names), strs |-> StrsWritten(names)]

DescriptorCapabilities == {
    LibOk(<<"get_opaque", "not_a_real_capability">>),
    LibOk(<<>>),
    [rc |-> yh_rc.YHR_INVALID_PARAMS, n_cap_strs |-> CAP_STRS_LEN, strs |-> <<>>],
    LibOk([i \in 1 .. CAP_STRS_LEN + 1 |-> "get_opaque"])}

\* type_ and algorithm of a descriptor: known codes, 0, and a code above
\* the known ones
DescriptorTypes == {yh_object_type.YH_ASYMMETRIC, yh_object_type.YH_PUBLIC, 8}

DescriptorAlgorithms == {0, yh_algorithm.YH_ALGO_EC_P224, 48}

\* the bytes of a label: NUL, 'A', a continuation byte, the first byte of a
\* two-byte and of a three-byte sequence, and a byte that is never valid
LabelBytes == {0, 65, 169, 195, 226, 255}

\* the label buffer holds MaxLabelLen bytes and the NUL that libyubihsm
\* puts after them
MaxLabelLen == 2

LabelBuffers == {Append(l, 0) : l \in [1 .. MaxLabelLen -> LabelBytes]}

Descriptors ==
    [capabilities : DescriptorCapabilities,
     id : {1, 65535},
     len : {32},
     domains : {0, 32769},
     type_ : DescriptorTypes,
     algorithm : DescriptorAlgorithms,
     sequence : {0},
     origin : {1},
     label : LabelBuffers,
     delegated_capabilities : DescriptorCapabilities]

ObjectInfoDecode ==
    /\ op = "start"
    /\ \E o \in Descriptors :
        /\ op' = "ObjectInfo::try_from_yh_object_descriptor"
        /\ arg' = o
        /\ ret' = ObjectInfo_try_from_yh_object_descriptor(o)

(***************************************************************************)
(* LogEntry and yh_log_entry.  entry.digest is a private field: a LogEntry *)
(* is made by decoding a yh_log_entry, and by nothing else outside this    *)
(* file.                                                                   *)
(***************************************************************************)
\* YH_LOG_DIGEST_SIZE, the length of a yh_log_entry's digest
DIGEST_SIZE == 16

\* impl From<yh_log_entry> for LogEntry
LogEntry_from(entry) ==
    [index |-> entry.number,
     command |-> Command_from(entry.command),
     data_length |-> entry.length,
     session_key |-> entry.session_key,
     target_key |-> entry.target_key,
     second_key |-> entry.second_key,
     result |-> Command_from(entry.result),
     systick |-> entry.systick,
     digest |-> entry.digest]

\* Vec::remove(0): the first element, or a panic when there is none
Vec_remove_first(v) ==
    IF Len(v) = 0 THEN Panic("removal index (is 0) should be < len (is 0)")
    ELSE Return(Head(v))

\* digest_vec: the digest, extended by DIGEST_SIZE zeros when it is shorter
\* than DIGEST_SIZE
LogEntry_digest_vec(digest) ==
    IF Len(digest) < DIGEST_SIZE
    THEN digest \o [i \in 1 .. DIGEST_SIZE |-> 0]
    ELSE digest

\* mutant: command and result are encoded back to their bytes
yh_log_entry_from_KeepCommand(entry) ==
    LET first == Vec_remove_first(LogEntry_digest_vec(entry.digest))
    IN  IF first.tag = "Panic" THEN first
        ELSE Return([
                number |-> entry.index,
                command |-> Command_to_u8(entry.command),
                length |-> entry.data_length,
                session_key |-> entry.session_key,
                target_key |-> entry.target_key,
                second_key |-> entry.second_key,
                result |-> Command_to_u8(entry.result),
                systick |-> entry.systick,
                digest |-> [i \in 1 .. DIGEST_SIZE |-> first.val]])

\* mutant: a short digest is not extended before its first byte is removed
yh_log_entry_from_NoExtend(entry) ==
    LET first == Vec_remove_first(entry.digest)
    IN  IF first.tag = "Panic" THEN first
        ELSE Return([
                number |-> entry.index,
                command |-> 0,
                length |-> entry.data_length,
                session_key |-> entry.session_key,
                target_key |-> entry.target_key,
                second_key |-> entry.second_key,
                result |-> 0,
                systick |-> entry.systick,
                digest |-> [i \in 1 .. DIGEST_SIZE |-> first.val]])

\* impl From<LogEntry> for yh_log_entry: digest_arr is
\* [digest_vec.remove(0); DIGEST_SIZE], the first byte of digest_vec repeated
yh_log_entry_from(entry) ==
    LET first == Vec_remove_first(LogEntry_digest_vec(entry.digest))
    IN  IF first.tag = "Panic" THEN first
        ELSE Return([
                number |-> entry.index,
                command |-> 0,
                length |-> entry.data_length,
                session_key |-> entry.session_key,
                target_key |-> entry.target_key,
                second_key |-> entry.second_key,
                result |-> 0,
                systick |-> entry.systick,
                digest |-> [i \in 1 .. DIGEST_SIZE |-> first.val]])

\* command and result bytes of the log entries the device sends: 0, a
\* request, the Error opcode, a response, a byte of no command
LogCommandBytes == {0, 1, 127, 129, 255}

\* digests: a first byte, then DIGEST_SIZE - 1 times another byte
LogDigests ==
    {[i \in 1 .. DIGEST_SIZE |-> IF i = 1 THEN a ELSE b] :
        a \in {0, 1, 255}, b \in {0, 1, 255}}

LogEntries ==
    [number : {0, 65535},
     command : LogCommandBytes,
     length : {0, 7},
     session_key : {1},
     target_key : {2, 65535},
     second_key : {3},
     result : LogCommandBytes,
     systick : {0, 2147483647},
     digest : LogDigests]

LogEntryFrom ==
    /\ op = "start"
    /\ \E entry \in LogEntries :
        /\ op' = "LogEntry::from"
        /\ arg' = entry
        /\ ret' = Return(LogEntry_from(entry))

\* the LogEntry just decoded is encoded again; arg keeps what it was decoded
\* from
LogEntryInto ==
    /\ op = "LogEntry::from"
    /\ op' = "yh_log_entry::from"
    /\ arg' = [wire |-> arg, entry |-> ret.val]
    /\ ret' = yh_log_entry_from(ret.val)

\* longest digest of a LogEntry given to the conversion directly
MaxDigestLen == 17

\* From<LogEntry> for yh_log_entry takes any LogEntry.  This file makes one
\* only by decoding, with a digest of DIGEST_SIZE bytes; the digest field is
\* open to the rest of the module, so the conversion is also applied to
\* entries whose digest has any length from 0 up: a first byte, then another
\* byte repeated
LogEntriesAnyDigest ==
    {[index |-> 1, command |-> Request("Echo"), data_length |-> 7,
      session_key |-> 1, target_key |-> 2, second_key |-> 3,
      result |-> Response("Echo"), systick |-> 9,
      digest |-> [i \in 1 .. n |-> IF i = 1 THEN a ELSE b]] :
        n \in 0 .. MaxDigestLen, a \in {0, 1, 255}, b \in {0, 1, 255}}

LogEntryEncode ==
    /\ op = "start"
    /\ \E entry \in LogEntriesAnyDigest :
        /\ op' = "yh_log_entry::from(LogEntry)"
        /\ arg' = entry
        /\ ret' = yh_log_entry_from(entry)

(***************************************************************************)
(* DeviceOption.  A DeviceOptionValue is the name of its variant.          *)
(***************************************************************************)
DeviceOptionValues == {"Disabled", "Enabled", "Fixed"}

\* `val as u8`: the discriminants of enum DeviceOptionValue
DeviceOptionValue_as_u8(val) ==
    CASE val = "Disabled" -> 0
      [] val = "Enabled" -> 1
      [] val = "Fixed" -> 2

ForceAudit(val) == [tag |-> "ForceAudit", val |-> val]

CommandAudit(vals) == [tag |-> "CommandAudit", vals |-> vals]

RECURSIVE DeviceOption_push_all(_, _, _)
\* the loop `for &(cmd, val) in vals`, from element i on
DeviceOption_push_all(vals, i, out) ==
    IF i > Len(vals) THEN out
    ELSE DeviceOption_push_all(
             vals, i + 1,
             Append(Append(out, Command_to_u8(Request(vals[i][1]))),
                    DeviceOptionValue_as_u8(vals[i][2])))

\* mutant: the value byte is pushed before the opcode
DeviceOption_to_bytes_ValueFirst(opt) ==
    CASE opt.tag = "ForceAudit" -> <<DeviceOptionValue_as_u8(opt.val)>>
      [] opt.tag = "CommandAudit" ->
            [i \in 1 .. 2 * Len(opt.vals) |->
                IF i % 2 = 1
                THEN DeviceOptionValue_as_u8(opt.vals[(i + 1) \div 2][2])
                ELSE Command_to_u8(Request(opt.vals[i \div 2][1]))]

\* DeviceOption::to_bytes
DeviceOption_to_bytes(opt) ==
    CASE opt.tag = "ForceAudit" -> <<DeviceOptionValue_as_u8(opt.val)>>
      [] opt.tag = "CommandAudit" -> DeviceOption_push_all(opt.vals, 1, <<>>)

\* the commands that the CommandAudit lists here name
AuditCommands == {"Echo", "GetLogs", "Blink", "Error"}

\* longest CommandAudit list
MaxAuditLen == 2

DeviceOptionToBytes ==
    /\ op = "start"
    /\ \E opt \in {ForceAudit(val) : val \in DeviceOptionValues}
            \cup {CommandAudit(vals) :
                     vals \in BoundedSeq(AuditCommands \X DeviceOptionValues,
                                         MaxAuditLen)} :
        /\ op' = "DeviceOption::to_bytes"
        /\ arg' = opt
        /\ ret' = Return(DeviceOption_to_bytes(opt))

NextRecord ==
    \/ CapabilitiesDecode
    \/ ObjectInfoDecode
    \/ LogEntryFrom
    \/ LogEntryInto
    \/ LogEntryEncode
    \/ DeviceOptionToBytes
    \/ Drop

SpecRecord == Init /\ [][NextRecord]_vars

(***************************************************************************)
(* The session state machine.  It is not in src/src/types.rs, which holds  *)
(* only its declarations (CommandType::CreateSession, AuthSession,         *)
(* SessionMessage, CloseSession; ReturnCode::MacMismatch,                  *)
(* AuthSessionError): it is modelled from section 4.5 of the               *)
(* specification.  arg is the session the caller holds, with the input of  *)
(* the last operation on it; ret is what that operation returned.          *)
(***************************************************************************)
\* a session: its state, the sequence counter of the last command sent,
\* whether it holds session keys, whether a command awaits its response
Session(state, counter, keys, in_flight) ==
    [state |-> state, counter |-> counter, keys |-> keys, in_flight |-> in_flight]

\* Faulted is terminal and discards the session keys
Faulted(session) == Session("Faulted", session.counter, FALSE, FALSE)

\* initiating a session: the device's challenge and the long-term key give
\* the session keys
Session_open(session) ==
    [session |-> Session("Authenticating", 0, TRUE, FALSE), ret |-> Ok(<<>>)]

\* the device's MAC on its reply to the authentication response verifies,
\* or the session is Faulted with an authentication error
Session_authenticate(session, reply) ==
    IF reply.mac_ok
    THEN [session |-> Session("Established", 0, TRUE, FALSE), ret |-> Ok(<<>>)]
    ELSE [session |-> Faulted(session), ret |-> Err("AuthSessionError")]

\* an outbound command takes the next value of the sequence counter; one
\* command is in flight at a time
Session_send(session) ==
    [session |-> Session("Established", session.counter + 1, TRUE, TRUE),
     ret |-> Ok(<<>>)]

\* mutant: the MAC of a response is not checked
Session_receive_NoMacCheck(session, response) ==
    IF response.sequence # session.counter
    THEN [session |-> Faulted(session), ret |-> Err("sequence mismatch")]
    ELSE IF ~response.well_formed
    THEN [session |-> Session("Established", session.counter, TRUE, FALSE),
          ret |-> Err("WrongLength")]
    ELSE [session |-> Session("Established", session.counter, TRUE, FALSE),
          ret |-> Ok(response.payload)]

\* mutant: a response one ahead of the expected sequence number is accepted
\* and the counter follows it
Session_receive_SkipAhead(session, response) ==
    IF ~response.mac_ok
    THEN [session |-> Faulted(session), ret |-> Err("MacMismatch")]
    ELSE IF response.sequence # session.counter
            /\ response.sequence # session.counter + 1
    THEN [session |-> Faulted(session), ret |-> Err("sequence mismatch")]
    ELSE IF ~response.well_formed
    THEN [session |-> Session("Established", response.sequence, TRUE, FALSE),
          ret |-> Err("WrongLength")]
    ELSE [session |-> Session("Established", response.sequence, TRUE, FALSE),
          ret |-> Ok(response.payload)]

\* an inbound response: its MAC is checked before anything of it is trusted,
\* then its sequence number must be the expected one; either mismatch
\* faults the session.  Only then is the payload read.
Session_receive(session, response) ==
    IF ~response.mac_ok
    THEN [session |-> Faulted(session), ret |-> Err("MacMismatch")]
    ELSE IF response.sequence # session.counter
    THEN [session |-> Faulted(session), ret |-> Err("sequence mismatch")]
    ELSE IF ~response.well_formed
    THEN [session |-> Session("Established", session.counter, TRUE, FALSE),
          ret |-> Err("WrongLength")]
    ELSE [session |-> Session("Established", session.counter, TRUE, FALSE),
          ret |-> Ok(response.payload)]

\* explicit close releases the session keys
Session_close(session) ==
    [session |-> Session("Closed", session.counter, FALSE, FALSE), ret |-> Ok(<<>>)]

\* commands sent in one session
MaxCommands == 5

\* the responses that may arrive: the MAC verifies or not, the sequence
\* number is any up to one past the last that can be expected, the payload
\* parses or not
Responses ==
    [mac_ok : BOOLEAN, sequence : 0 .. MaxCommands + 1, well_formed : BOOLEAN,
     payload : {"payload"}]

SessionOps == {
    "Session::new", "Session::open", "Session::authenticate", "Session::send",
    "Session::receive"}

SessionNew ==
    /\ op = "start"
    /\ op' = "Session::new"
    /\ arg' = [session |-> Session("Unauthenticated", 0, FALSE, FALSE),
               input |-> <<>>]
    /\ ret' = Return(Ok(<<>>))

SessionOpen ==
    /\ op \in SessionOps
    /\ arg.session.state = "Unauthenticated"
    /\ op' = "Session::open"
    /\ arg' = [session |-> Session_open(arg.session).session, input |-> <<>>]
    /\ ret' = Return(Session_open(arg.session).ret)

SessionAuthenticate ==
    /\ op \in SessionOps
    /\ arg.session.state = "Authenticating"
    /\ \E reply \in [mac_ok : BOOLEAN] :
        /\ op' = "Session::authenticate"
        /\ arg' = [session |-> Session_authenticate(arg.session, reply).session,
                   input |-> reply]
        /\ ret' = Return(Session_authenticate(arg.session, reply).ret)

SessionSend ==
    /\ op \in SessionOps
    /\ arg.session.state = "Established"
    /\ ~arg.session.in_flight
    /\ arg.session.counter < MaxCommands
    /\ op' = "Session::send"
    /\ arg' = [session |-> Session_send(arg.session).session, input |-> <<>>]
    /\ ret' = Return(Session_send(arg.session).ret)

SessionReceive ==
    /\ op \in SessionOps
    /\ arg.session.state = "Established"
    /\ arg.session.in_flight
    /\ \E response \in Responses :
        /\ op' = "Session::receive"
        /\ arg' = [session |-> Session_receive(arg.session, response).session,
                   input |-> response]
        /\ ret' = Return(Session_receive(arg.session, response).ret)

SessionClose ==
    /\ op \in SessionOps
    /\ arg.session.state = "Established"
    /\ ~arg.session.in_flight
    /\ op' = "Session::close"
    /\ arg' = [session |-> Session_close(arg.session).session, input |-> <<>>]
    /\ ret' = Return(Session_close(arg.session).ret)

NextSession ==
    \/ SessionNew
    \/ SessionOpen
    \/ SessionAuthenticate
    \/ SessionSend
    \/ SessionReceive
    \/ SessionClose
    \/ Drop

SpecSession == Init /\ [][NextSession]_vars

(***************************************************************************)
(* Claims about the Domain codec, checked under SpecDomain.                *)
(***************************************************************************)

\* C1: decoding the mask that a list of domains encodes to yields exactly the
\* set of the list's members, whatever the order or repetition in the list
\* (every subset of 1..16 is encoded, and every list of up to MaxListLen).
C1_DomainRoundTrip ==
    op = "Vec::from(DomainParam::from(iter))" =>
        /\ ret.tag = "Return"
        /\ Range(ret.val) = Range(arg)

\* a list out of order and with a repetition went through encode and decode
C1_Witness ==
    /\ op = "Vec::from(DomainParam::from(iter))"
    /\ arg = <<16, 1, 16>>
    /\ ret.val = <<1, 16>>

\* C2: Domain::new returns an error for 0 and for every d > 16, Ok(Domain(d))
\* for every d in 1..16, and nothing else for any u8.
C2_DomainNewRange ==
    op = "Domain::new" =>
        /\ ret.tag = "Return"
        /\ (arg = 0 \/ arg > 16) => ret.val.tag = "Err"
        /\ (arg >= 1 /\ arg <= 16) => ret.val = [tag |-> "Ok", val |-> arg]

\* Domain::new rejected 17, the first value above the range
C2_Witness ==
    /\ op = "Domain::new"
    /\ arg = 17
    /\ ret.val.tag = "Err"

\* C3: every Domain that Domain::new returns or a decode yields lies in
\* 1..16, and encoding such Domains never leaves the shift range 0..15: no
\* encode underflows or overflows (it never panics in a checked build), and
\* a single Domain d encodes to the one bit d-1 of the 16.
C3_DomainInRange ==
    /\ (op = "Domain::new" /\ ret.val.tag = "Ok") => ret.val.val \in 1 .. 16
    /\ op = "Vec::from(DomainParam)" =>
           \A i \in 1 .. Len(ret.val) : ret.val[i] \in 1 .. 16
    /\ op \in {"DomainParam::from(Domain)", "DomainParam::from(iter)",
               "DomainParam::from(Vec::from(DomainParam))"} =>
           ret.tag = "Return"
    /\ op = "DomainParam::from(Domain)" =>
           \E k \in 0 .. 15 : k = arg - 1 /\ ret.val = 2 ^ k

\* the highest Domain, 16, was encoded with shift 15
C3_Witness ==
    /\ op = "DomainParam::from(Domain)"
    /\ arg = 16
    /\ ret = [tag |-> "Return", val |-> 32768]

\* C4: a collection of domains encodes to the OR of 1 << (d-1) over its
\* members: bit i of the result is set iff domain i+1 is a member, no bit
\* above bit 15 is set, the empty collection encodes to 0, and a single
\* Domain d encodes to exactly 1 << (d-1).
C4_EncodeIsOrOfBits ==
    /\ op = "DomainParam::from(iter)" =>
           /\ ret.tag = "Return"
           /\ ret.val \in 0 .. 65535
           /\ \A i \in 0 .. 15 :
                  ((ret.val \div 2 ^ i) % 2 = 1) <=> (i + 1 \in Range(arg))
           /\ arg = <<>> => ret.val = 0
    /\ op = "DomainParam::from(Domain)" =>
           /\ ret.tag = "Return"
           /\ ret.val = 2 ^ (arg - 1)

\* the list <<16, 1>> was encoded to bits 15 and 0
C4_Witness ==
    /\ op = "DomainParam::from(iter)"
    /\ arg = <<16, 1>>
    /\ ret = [tag |-> "Return", val |-> 32769]

\* C22: for every 16-bit mask m, decoding m yields Domain(i+1) exactly once
\* for each set bit i of 0..15 and nothing else, in strictly ascending order,
\* and encoding the decoded list gives back m without overflow in any build
\* (0 decodes to the empty list, 0xFFFF to all 16 domains).
C22_MaskRoundTrip ==
    /\ op = "Vec::from(DomainParam)" =>
           /\ ret.tag = "Return"
           /\ \A i \in 1 .. Len(ret.val) - 1 : ret.val[i] < ret.val[i + 1]
           /\ \A i \in 0 .. 15 :
                  ((arg \div 2 ^ i) % 2 = 1)
                      <=> (\E k \in 1 .. Len(ret.val) : ret.val[k] = i + 1)
           /\ \A k \in 1 .. Len(ret.val) : ret.val[k] \in 1 .. 16
           /\ arg = 0 => ret.val = <<>>
           /\ arg = 65535 => Len(ret.val) = 16
    /\ op = "DomainParam::from(Vec::from(DomainParam))" =>
           ret = [tag |-> "Return", val |-> arg]

\* the mask 0xFFFF was decoded and the 16 domains encoded back to 0xFFFF
C22_Witness ==
    /\ op = "DomainParam::from(Vec::from(DomainParam))"
    /\ arg = 65535
    /\ ret = [tag |-> "Return", val |-> 65535]

(***************************************************************************)
(* Claims about the Command codec, checked under Spec.                     *)
(***************************************************************************)

\* C5: for every CommandType ty, Request(ty) encodes to the byte opcode(ty),
\* Response(ty) encodes to opcode(ty) | 0x80 (the same low seven bits, with
\* bit 7 set), and opcode(ty) < 0x80.
C5_CommandOpcode ==
    /\ op = "u8::from(CommandType)" => ret.val \in 0 .. 127
    /\ (op = "u8::from(Command)" /\ arg.tag = "Request") =>
           ret.val = CommandType_to_u8(arg.ty)
    /\ (op = "u8::from(Command)" /\ arg.tag = "Response") =>
           /\ ret.val \in 128 .. 255
           /\ ret.val % 128 = CommandType_to_u8(arg.ty) % 128

\* Response(Blink) was encoded to 0x6b | 0x80
C5_Witness ==
    /\ op = "u8::from(Command)"
    /\ arg = [tag |-> "Response", ty |-> "Blink"]
    /\ ret.val = 235

\* C6 as stated: for every byte b that decodes to a known command, the
\* result is Response(ty) exactly when b has bit 0x80 set and Request(ty)
\* exactly when it does not, with opcode(ty) = b & 0x7F.
C6_TopBitDecides ==
    (op = "Command::from" /\ arg \in 0 .. 255 /\ ret.val.tag # "Unknown") =>
        /\ ret.val.tag = "Response" <=> arg \div 128 = 1
        /\ ret.val.tag = "Request" <=> arg \div 128 = 0
        /\ CommandType_to_u8(ret.val.ty) = arg % 128

\* C6 as amended: the same for every byte other than the Error opcode 0x7F;
\* the byte 0x7F, whose bit 0x80 is clear, decodes to Response(Error).
C6_TopBitDecidesExceptError ==
    /\ (op = "Command::from" /\ arg \in 0 .. 255 /\ arg # 127
            /\ ret.val.tag # "Unknown") =>
           /\ ret.val.tag = "Response" <=> arg \div 128 = 1
           /\ ret.val.tag = "Request" <=> arg \div 128 = 0
           /\ CommandType_to_u8(ret.val.ty) = arg % 128
    /\ (op = "Command::from" /\ arg = 127) =>
           ret.val = [tag |-> "Response", ty |-> "Error"]

\* the byte 0x81 was decoded to Response(Echo)
C6_Witness ==
    /\ op = "Command::from"
    /\ arg = 129
    /\ ret.val = [tag |-> "Response", ty |-> "Echo"]

\* C7 as stated: no two CommandType variants (Error included) share an
\* opcode, and every opcode lies in the half-open range [0, 0x7F).
C7_OpcodesDistinctBelow7F ==
    op = "u8::from(CommandType)" =>
        /\ ret.val \in 0 .. 126
        /\ \A ty \in CommandTypes \ {arg} : CommandType_to_u8(ty) # ret.val

\* C7 as amended: no two variants share an opcode, and every opcode lies in
\* the closed range [0, 0x7F]: Error is bound to 0x7F itself, every other
\* variant to an opcode below 0x7F.
C7_OpcodesDistinctUpTo7F ==
    op = "u8::from(CommandType)" =>
        /\ ret.val \in 0 .. 127
        /\ ret.val = 127 <=> arg = "Error"
        /\ \A ty \in CommandTypes \ {arg} : CommandType_to_u8(ty) # ret.val

\* the opcode of CommandType::Error was taken: it is 0x7F
C7_Witness ==
    /\ op = "u8::from(CommandType)"
    /\ arg = "Error"
    /\ ret.val = 127

\* C23: for every CommandType ty other than Error, the byte that Request(ty)
\* encodes to decodes to Request(ty), and the byte that Response(ty) encodes
\* to decodes to Response(ty).
C23_CommandRoundTrip ==
    (op = "Command::from(u8::from(Command))"
        /\ arg.tag \in {"Request", "Response"} /\ arg.ty # "Error") =>
        ret = [tag |-> "Return", val |-> arg]

\* Response(Blink) went to its byte 0xeb and back
C23_Witness ==
    /\ op = "Command::from(u8::from(Command))"
    /\ arg = [tag |-> "Response", ty |-> "Blink"]
    /\ ret.val = [tag |-> "Response", ty |-> "Blink"]

\* C24: every value decodes to a Command without failing, a value that is no
\* opcode of the table to Command::Unknown; Unknown and Request(Error) both
\* encode to the Error opcode 0x7F, which decodes to Response(Error);
\* Response(Error) encodes to 0xFF, which decodes to Unknown; so encoding
\* and decoding returns none of these three values unchanged.
C24_DecodeTotalErrorAliased ==
    /\ op = "Command::from" =>
           /\ ret.tag = "Return"
           /\ ret.val \in Commands
           /\ (\A name \in DOMAIN yh_cmd : yh_cmd[name] # arg) =>
                  ret.val = [tag |-> "Unknown"]
           /\ arg = 127 => ret.val = [tag |-> "Response", ty |-> "Error"]
           /\ arg = 255 => ret.val = [tag |-> "Unknown"]
    /\ (op = "u8::from(Command)"
            /\ arg \in {[tag |-> "Unknown"], [tag |-> "Request", ty |-> "Error"]}) =>
           ret.val = 127
    /\ (op = "u8::from(Command)" /\ arg = [tag |-> "Response", ty |-> "Error"]) =>
           ret.val = 255
    /\ (op = "Command::from(u8::from(Command))"
            /\ arg \in {[tag |-> "Unknown"], [tag |-> "Request", ty |-> "Error"]}) =>
           ret.val = [tag |-> "Response", ty |-> "Error"]
    /\ (op = "Command::from(u8::from(Command))"
            /\ arg = [tag |-> "Response", ty |-> "Error"]) =>
           ret.val = [tag |-> "Unknown"]

\* Request(Error) was encoded to 0x7F and decoded to Response(Error)
C24_Witness ==
    /\ op = "Command::from(u8::from(Command))"
    /\ arg = [tag |-> "Request", ty |-> "Error"]
    /\ ret.val = [tag |-> "Response", ty |-> "Error"]

(***************************************************************************)
(* Claims about Algorithm, Capability and ReturnCode, checked under Spec.  *)
(***************************************************************************)

\* C8: for every Algorithm A, converting A to its code and the code back
\* gives A; for every known code n (the code of some variant), converting n
\* to an Algorithm and back gives n; and neither conversion panics for an
\* Algorithm or a known code.
C8_AlgorithmRoundTrip ==
    /\ op = "yh_algorithm::from" => ret.tag = "Return"
    /\ op = "Algorithm::from(yh_algorithm::from)" =>
           ret = [tag |-> "Return", val |-> arg]
    /\ (op = "Algorithm::from"
            /\ \E alg \in Algorithms : yh_algorithm_from(alg) = arg) =>
           ret.tag = "Return" /\ ret.val \in Algorithms
    /\ op = "yh_algorithm::from(Algorithm::from)" =>
           ret = [tag |-> "Return", val |-> arg]

\* EcP224, whose arms are out of the enum's order, went to its code and back
C8_Witness ==
    /\ op = "Algorithm::from(yh_algorithm::from)"
    /\ arg = "EcP224"
    /\ ret = [tag |-> "Return", val |-> "EcP224"]

\* C9: for every Capability c other than Unknown, converting c to its name
\* and the name back yields c; distinct known capabilities have distinct
\* names; and every string that is the name of no known capability maps to
\* Capability::Unknown, without failing.
C9_CapabilityNames ==
    /\ (op = "Capability::from(String::from(Capability))" /\ arg # "Unknown") =>
           ret = [tag |-> "Return", val |-> arg]
    /\ (op = "String::from(Capability)" /\ arg # "Unknown") =>
           \A cap \in Capabilities \ {arg, "Unknown"} :
               String_from_Capability(cap) # ret.val
    /\ (op = "Capability::from"
            /\ \A cap \in Capabilities \ {"Unknown"} :
                   String_from_Capability(cap) # arg) =>
           ret = [tag |-> "Return", val |-> "Unknown"]

\* DeleteHmacKey went to its name and back
C9_Witness ==
    /\ op = "Capability::from(String::from(Capability))"
    /\ arg = "DeleteHmacKey"
    /\ ret = [tag |-> "Return", val |-> "DeleteHmacKey"]

\* C10: decoding a ReturnCode from a number that is the code of no variant
\* aborts (panics): it yields no ReturnCode and no Result value.
C10_UnknownReturnCodePanics ==
    (op = "ReturnCode::from"
        /\ \A rc \in ReturnCodes : yh_rc_from(rc) # arg) =>
        ret.tag = "Panic"

\* -30, one past the last known code, was decoded and the conversion panicked
C10_Witness ==
    /\ op = "ReturnCode::from"
    /\ arg = -30
    /\ ret.tag = "Panic"

\* C11: the ReturnCode and ObjectType mappings are exact in both directions:
\* converting a variant to its code never fails, distinct variants have
\* distinct codes, and converting the code of a variant v back returns v.
C11_CodeMappingsExact ==
    /\ op = "yh_rc::from" =>
           /\ ret.tag = "Return"
           /\ \A rc \in ReturnCodes \ {arg} : yh_rc_from(rc) # ret.val
    /\ op = "ReturnCode::from(yh_rc::from)" =>
           ret = [tag |-> "Return", val |-> arg]
    /\ op = "yh_object_type::from" =>
           /\ ret.tag = "Return"
           /\ \A obj \in ObjectTypes \ {arg} : yh_object_type_from(obj) # ret.val
    /\ op = "ObjectType::from(yh_object_type::from)" =>
           ret = [tag |-> "Return", val |-> arg]

\* ObjectType::Public went to its code 0x83 and back
C11_Witness ==
    /\ op = "ObjectType::from(yh_object_type::from)"
    /\ arg = "Public"
    /\ ret = [tag |-> "Return", val |-> "Public"]

\* C12: decoding an Algorithm or an ObjectType from a number that is the code
\* of no variant fails (the conversion panics); no variant is returned for it.
C12_UnknownCodeFails ==
    /\ (op = "Algorithm::from"
            /\ \A alg \in Algorithms : yh_algorithm_from(alg) # arg) =>
           ret.tag = "Panic"
    /\ (op = "ObjectType::from"
            /\ \A obj \in ObjectTypes : yh_object_type_from(obj) # arg) =>
           ret.tag = "Panic"

\* 8, the first number above the contiguous object type codes, was decoded
\* and the conversion panicked
C12_Witness ==
    /\ op = "ObjectType::from"
    /\ arg = 8
    /\ ret.tag = "Panic"

(***************************************************************************)
(* Claims about the decoders of records, checked under SpecRecord.         *)
(***************************************************************************)

CapsOk(lib) == lib.rc = yh_rc.YHR_SUCCESS /\ lib.n_cap_strs <= 64

CapsErr(lib) == lib.rc # yh_rc.YHR_SUCCESS

KnownType(o) == \E obj \in ObjectTypes : yh_object_type_from(obj) = o.type_

KnownAlgorithm(o) == \E alg \in Algorithms : yh_algorithm_from(alg) = o.algorithm

\* C13: in ObjectInfo decode the algorithm code 0 decodes to None and a
\* nonzero code of an Algorithm decodes to Some of that Algorithm: when the
\* other fields decode, the result is Ok with exactly that algorithm field.
C13_AlgorithmOptional ==
    (op = "ObjectInfo::try_from_yh_object_descriptor"
        /\ CapsOk(arg.capabilities) /\ CapsOk(arg.delegated_capabilities)
        /\ KnownType(arg)) =>
        /\ arg.algorithm = 0 =>
               /\ ret.tag = "Return" /\ ret.val.tag = "Ok"
               /\ ret.val.val.algorithm = [tag |-> "None"]
        /\ KnownAlgorithm(arg) =>
               /\ ret.tag = "Return" /\ ret.val.tag = "Ok"
               /\ ret.val.val.algorithm.tag = "Some"
               /\ yh_algorithm_from(ret.val.val.algorithm.val) = arg.algorithm

\* a descriptor with algorithm code 0 was decoded to an ObjectInfo without
\* an algorithm
C13_Witness ==
    /\ op = "ObjectInfo::try_from_yh_object_descriptor"
    /\ arg.algorithm = 0
    /\ ret.tag = "Return" /\ ret.val.tag = "Ok"
    /\ ret.val.val.algorithm = [tag |-> "None"]

\* whether the bytes before the first NUL of the label are invalid UTF-8 (no
\* label buffer here holds the encoding of U+FFFD itself)
InvalidLabel(o) ==
    REPLACEMENT_CHARACTER \in Range(String_from_utf8_lossy(CStr_from_ptr(o.label)))

\* C14 as stated: whenever the decode of a field fails (the capabilities or
\* the delegated capabilities, invalid UTF-8 in the label, an unknown object
\* type, an unknown nonzero algorithm code), the decode returns Err.
C14_AnyFieldFailureReturnsErr ==
    (op = "ObjectInfo::try_from_yh_object_descriptor"
        /\ \/ CapsErr(arg.capabilities)
           \/ CapsErr(arg.delegated_capabilities)
           \/ InvalidLabel(arg)
           \/ ~KnownType(arg)
           \/ (arg.algorithm # 0 /\ ~KnownAlgorithm(arg))) =>
        ret.tag = "Return" /\ ret.val.tag = "Err"

\* C14 as amended: an ObjectInfo is returned only when every field decoded,
\* and then with every field populated; a capability decode that returns Err
\* makes the whole decode return Err (for the delegated capabilities: when
\* the type and algorithm before them are known); an unknown object type or
\* unknown nonzero algorithm code makes the decode panic; invalid UTF-8 in
\* the label fails nothing.
C14_AllOrNothing ==
    op = "ObjectInfo::try_from_yh_object_descriptor" =>
        /\ CapsErr(arg.capabilities) =>
               ret.tag = "Return" /\ ret.val.tag = "Err"
        /\ (CapsOk(arg.capabilities) /\ ~KnownType(arg)) => ret.tag = "Panic"
        /\ (CapsOk(arg.capabilities) /\ KnownType(arg)
                /\ arg.algorithm # 0 /\ ~KnownAlgorithm(arg)) =>
               ret.tag = "Panic"
        /\ (CapsOk(arg.capabilities) /\ KnownType(arg)
                /\ (arg.algorithm = 0 \/ KnownAlgorithm(arg))
                /\ CapsErr(arg.delegated_capabilities)) =>
               ret.tag = "Return" /\ ret.val.tag = "Err"
        /\ (CapsOk(arg.capabilities) /\ KnownType(arg)
                /\ (arg.algorithm = 0 \/ KnownAlgorithm(arg))
                /\ CapsOk(arg.delegated_capabilities)) =>
               ret.tag = "Return" /\ ret.val.tag = "Ok"
        /\ (ret.tag = "Return" /\ ret.val.tag = "Ok") =>
               /\ CapsOk(arg.capabilities)
               /\ CapsOk(arg.delegated_capabilities)
               /\ KnownType(arg)
               /\ arg.algorithm = 0 \/ KnownAlgorithm(arg)
               /\ Len(ret.val.val.capabilities) = arg.capabilities.n_cap_strs
               /\ Len(ret.val.val.delegated_capabilities)
                      = arg.delegated_capabilities.n_cap_strs
               /\ yh_object_type_from(ret.val.val.object_type) = arg.type_
               /\ ret.val.val.id = arg.id
               /\ ret.val.val.length = arg.len
               /\ ret.val.val.sequence = arg.sequence
               /\ ret.val.val.origin = arg.origin
               /\ \A d \in 1 .. 16 :
                      d \in Range(ret.val.val.domains)
                          <=> (arg.domains \div 2 ^ (d - 1)) % 2 = 1

\* the capabilities decoded, the type and algorithm are known, the decode of
\* the delegated capabilities failed: Err is returned
C14_Witness ==
    /\ op = "ObjectInfo::try_from_yh_object_descriptor"
    /\ CapsOk(arg.capabilities)
    /\ arg.capabilities.n_cap_strs = 2
    /\ KnownType(arg)
    /\ KnownAlgorithm(arg)
    /\ CapsErr(arg.delegated_capabilities)
    /\ ret.tag = "Return" /\ ret.val.tag = "Err"

\* C15: the decode of the label never fails: when the other fields decode,
\* the result is Ok whatever the label's bytes, its label is the lossy UTF-8
\* conversion of the bytes before the first NUL, and a label of ASCII bytes
\* is those bytes.
C15_LabelLossy ==
    (op = "ObjectInfo::try_from_yh_object_descriptor"
        /\ CapsOk(arg.capabilities) /\ CapsOk(arg.delegated_capabilities)
        /\ KnownType(arg) /\ (arg.algorithm = 0 \/ KnownAlgorithm(arg))) =>
        /\ ret.tag = "Return" /\ ret.val.tag = "Ok"
        /\ \E n \in 1 .. Len(arg.label) :
               /\ arg.label[n] = 0
               /\ \A j \in 1 .. (n - 1) : arg.label[j] # 0
               /\ ret.val.val.label
                      = String_from_utf8_lossy(SubSeq(arg.label, 1, n - 1))
               /\ (\A j \in 1 .. (n - 1) : arg.label[j] < 128) =>
                      ret.val.val.label = SubSeq(arg.label, 1, n - 1)

\* a label that begins a two-byte sequence and breaks it off was decoded: the
\* broken byte became U+FFFD and the decode succeeded
C15_Witness ==
    /\ op = "ObjectInfo::try_from_yh_object_descriptor"
    /\ arg.label = <<195, 65, 0>>
    /\ ret.tag = "Return" /\ ret.val.tag = "Ok"
    /\ ret.val.val.label = <<65533, 65>>

\* C18: encoding a LogEntry writes 0 for the command byte and for the result
\* byte whatever the entry's command and result are, and copies index,
\* data_length, session_key, target_key, second_key and systick unchanged;
\* so decoding a log entry and encoding it again does not give back a
\* nonzero command or result byte.
C18_LogEntryCommandZeroed ==
    op = "yh_log_entry::from" =>
        /\ ret.val.command = 0
        /\ ret.val.result = 0
        /\ ret.val.number = arg.entry.index
        /\ ret.val.length = arg.entry.data_length
        /\ ret.val.session_key = arg.entry.session_key
        /\ ret.val.target_key = arg.entry.target_key
        /\ ret.val.second_key = arg.entry.second_key
        /\ ret.val.systick = arg.entry.systick
        /\ arg.wire.command # 0 => ret.val.command # arg.wire.command
        /\ arg.wire.result # 0 => ret.val.result # arg.wire.result
        /\ <<ret.val.number, ret.val.length, ret.val.session_key,
             ret.val.target_key, ret.val.second_key, ret.val.systick>>
               = <<arg.wire.number, arg.wire.length, arg.wire.session_key,
                   arg.wire.target_key, arg.wire.second_key, arg.wire.systick>>

\* a log entry of command 0x01 with result 0x81 was decoded to
\* Request(Echo), Response(Echo) and encoded again with both bytes 0
C18_Witness ==
    /\ op = "yh_log_entry::from"
    /\ arg.wire.command = 1 /\ arg.wire.result = 129
    /\ arg.entry.command = [tag |-> "Request", ty |-> "Echo"]
    /\ arg.entry.result = [tag |-> "Response", ty |-> "Echo"]
    /\ ret.val.command = 0 /\ ret.val.result = 0
    /\ ret.val.systick = 2147483647

\* C19: ForceAudit(v) encodes to the one byte of v (Disabled 0, Enabled 1,
\* Fixed 2); CommandAudit(list) encodes to 2 * len(list) bytes whose i-th
\* pair is the request opcode of the i-th command and the byte of the i-th
\* value, in the list's order; the empty list encodes to no bytes.
C19_DeviceOptionPayload ==
    op = "DeviceOption::to_bytes" =>
        /\ ret.tag = "Return"
        /\ arg.tag = "ForceAudit" =>
               /\ Len(ret.val) = 1
               /\ ret.val[1] \in {0, 1, 2}
               /\ ret.val[1] = 0 <=> arg.val = "Disabled"
               /\ ret.val[1] = 1 <=> arg.val = "Enabled"
               /\ ret.val[1] = 2 <=> arg.val = "Fixed"
        /\ arg.tag = "CommandAudit" =>
               /\ Len(ret.val) = 2 * Len(arg.vals)
               /\ arg.vals = <<>> => ret.val = <<>>
               /\ \A i \in 1 .. Len(arg.vals) :
                      /\ ret.val[2 * i - 1] = CommandType_to_u8(arg.vals[i][1])
                      /\ ret.val[2 * i] = 0 <=> arg.vals[i][2] = "Disabled"
                      /\ ret.val[2 * i] = 1 <=> arg.vals[i][2] = "Enabled"
                      /\ ret.val[2 * i] = 2 <=> arg.vals[i][2] = "Fixed"

\* CommandAudit of (GetLogs, Fixed) then (Echo, Disabled) was encoded to
\* 0x4d 0x02 0x01 0x00
C19_Witness ==
    /\ op = "DeviceOption::to_bytes"
    /\ arg = [tag |-> "CommandAudit",
              vals |-> << <<"GetLogs", "Fixed">>, <<"Echo", "Disabled">> >>]
    /\ ret.val = <<77, 2, 1, 0>>

(***************************************************************************)
(* Claims about the session, checked under SpecSession.                    *)
(***************************************************************************)

\* C20: a response whose MAC does not verify, received in an Established
\* session, is rejected and leaves the session Faulted, whether its payload
\* is well-formed or not and whatever its sequence number; its payload is
\* never returned; and a Faulted session holds no session keys.
C20_TamperedMacFaults ==
    (op = "Session::receive" /\ ~arg.input.mac_ok) =>
        /\ arg.session.state = "Faulted"
        /\ ~arg.session.keys
        /\ ret.val.tag = "Err"

\* a response with the expected sequence number and a well-formed payload,
\* but a MAC that does not verify, was received: the session is Faulted
C20_Witness ==
    /\ op = "Session::receive"
    /\ ~arg.input.mac_ok
    /\ arg.input.well_formed
    /\ arg.input.sequence = arg.session.counter
    /\ arg.session.state = "Faulted"
    /\ ret.val.tag = "Err"

\* C21: when an Established session that expects sequence number N receives
\* a well-formed response whose MAC verifies and whose sequence number is
\* N + 1, the response is rejected (Err, no payload), the session is Faulted
\* and its counter stays N: it is not moved to N + 1.
C21_NoSkipAhead ==
    [][(op = "Session::send" /\ op' = "Session::receive"
            /\ arg'.input.mac_ok /\ arg'.input.well_formed
            /\ arg'.input.sequence = arg.session.counter + 1) =>
           /\ arg'.session.state = "Faulted"
           /\ ~arg'.session.keys
           /\ ret'.val.tag = "Err"
           /\ arg'.session.counter = arg.session.counter]_vars

\* the second command was sent, a well-formed response with a good MAC and
\* sequence number 3 arrived, and the session is Faulted with counter 2
C21_Witness ==
    /\ op = "Session::receive"
    /\ arg.input.mac_ok /\ arg.input.well_formed
    /\ arg.input.sequence = 3
    /\ arg.session.counter = 2
    /\ arg.session.state = "Faulted"
    /\ ret.val.tag = "Err"

\* C25: encoding a LogEntry never fails, whatever the length of its digest
\* (the empty digest included), and every one of the 16 digest bytes of the
\* result is the first byte of the entry's digest, or 0 when the digest is
\* empty; so decoding a log entry and encoding it again gives back the
\* original digest exactly when all bytes of that digest are equal.
C25_DigestFirstByteRepeated ==
    /\ op = "yh_log_entry::from(LogEntry)" =>
           /\ ret.tag = "Return"
           /\ Len(ret.val.digest) = 16
           /\ \A i \in 1 .. 16 :
                  ret.val.digest[i]
                      = IF arg.digest = <<>> THEN 0 ELSE arg.digest[1]
    /\ op = "yh_log_entry::from" =>
           /\ ret.tag = "Return"
           /\ Len(ret.val.digest) = 16
           /\ \A i \in 1 .. 16 : ret.val.digest[i] = arg.entry.digest[1]
           /\ ret.val.digest = arg.wire.digest
                  <=> \A i, j \in 1 .. 16 : arg.wire.digest[i] = arg.wire.digest[j]

\* a LogEntry with an empty digest was encoded: the digest is 16 zeros
C25_Witness ==
    /\ op = "yh_log_entry::from(LogEntry)"
    /\ arg.digest = <<>>
    /\ ret.tag = "Return"
    /\ ret.val.digest = [i \in 1 .. 16 |-> 0]

=============================================================================
